---------------------------- MODULE Spec2Model ----------------------------
(***************************************************************************)
(* A model of the YANG lint language server: the brace matcher and the     *)
(* structural extractor (server/yangParser.ts), the rule engine and the    *)
(* server's listeners (server/ruleEngine.ts, server/index.ts) and the      *)
(* quick-fix provider (server/providers/quickfix.ts).                      *)
(*                                                                         *)
(* A text is a sequence of one-character strings.  The source indexes a    *)
(* text from 0; the model keeps the source's 0-based offsets and reads a   *)
(* character through At.  Documents use "\n" line endings.                 *)
(*                                                                         *)
(* Four specifications share the module: Spec is the server (rule file,    *)
(* open documents, validation passes, code-action requests), SpecBrace is  *)
(* findMatchingBrace run step by step on generated texts, SpecParse is     *)
(* parseYang applied to generated texts, SpecKey is keyOrderInvalid        *)
(* applied to generated list nodes.                                        *)
(***************************************************************************)
EXTENDS Integers, Sequences, FiniteSets, TLC

VARIABLES
  ruleFile,     \* the rule file as the last reload found it
  compiled,     \* RuleEngine.compiled
  lastMessage,  \* what the last reload showed: "error" or "info"
  deviationMap, \* the exported deviationMap of ruleEngine.ts
  documents,    \* the TextDocuments manager: uri -> text, in the order opened
  published,    \* the diagnostics last sent for each uri
  lastPass,     \* the locals of the most recent validate(doc) of index.ts
  lastActions,  \* the onCodeAction request just answered and its response
  btext,        \* SpecBrace: the text handed to findMatchingBrace
  bleft,        \* SpecBrace: characters that may still be appended
  scan,         \* SpecBrace: the locals of findMatchingBrace
  ptext,        \* SpecParse: the text handed to parseYang
  pleft,        \* SpecParse: pieces that may still be appended
  parsed,       \* SpecParse: what parseYang returned for ptext
  lastIndex,    \* the lastIndex of each module-level g pattern of yangParser.ts
  phistory,     \* SpecParse: the parseYang calls made before the current text
  klist,        \* SpecKey: the list node handed to keyOrderInvalid
  kresult       \* SpecKey: what keyOrderInvalid returned for klist

serverVars ==
  <<ruleFile, compiled, lastMessage, deviationMap, documents, published, lastPass, lastActions>>

braceVars == <<btext, bleft, scan>>

parseVars == <<ptext, pleft, parsed, lastIndex, phistory>>

keyVars == <<klist, kresult>>

vars == <<serverVars, braceVars, parseVars, keyVars>>

(***************************************************************************)
(* Strings                                                                 *)
(***************************************************************************)
\* text[i] of the source; "undefined" outside the text
Undefined == "undefined"

At(text, i) == IF i >= 0 /\ i < Len(text) THEN text[i + 1] ELSE Undefined

\* text.slice(from, to) for 0 <= from
Slice(text, from, to) ==
  LET t == IF to > Len(text) THEN Len(text) ELSE to
  IN IF from >= t THEN <<>> ELSE SubSeq(text, from + 1, t)

Min(S) == CHOOSE x \in S : \A y \in S : x <= y

Max(S) == CHOOSE x \in S : \A y \in S : x >= y

\* an optional value: None is undefined, Some(x) is x
None == <<>>

Some(x) == <<x>>

\* text.indexOf(ch, from), -1 when there is none
IndexOf(text, ch, from) ==
  LET C == {k \in from .. (Len(text) - 1) : text[k + 1] = ch}
  IN IF C = {} THEN -1 ELSE Min(C)

\* text.lastIndexOf(ch), -1 when there is none
LastIndexOf(text, ch) ==
  LET C == {k \in 0 .. (Len(text) - 1) : text[k + 1] = ch}
  IN IF C = {} THEN -1 ELSE Max(C)

\* the offsets of the newlines of a text
Newlines(text) == {k \in 0 .. (Len(text) - 1) : text[k + 1] = "\n"}

(***************************************************************************)
(* Pieces of a regular expression.  A greedy class repetition ends at the  *)
(* first character outside the class: in the patterns built from these,    *)
(* the piece that follows a repetition starts outside its class (the       *)
(* exception, the last brace of a line, is matched in KeywordBlock).       *)
(***************************************************************************)
Lower == {"a", "b", "c", "d", "e", "f", "g", "h", "i", "j", "k", "l", "m", "n", "o", "p", "q", "r", "s", "t", "u", "v", "w", "x", "y", "z"}

Upper == {"A", "B", "C", "D", "E", "F", "G", "H", "I", "J", "K", "L", "M", "N", "O", "P", "Q", "R", "S", "T", "U", "V", "W", "X", "Y", "Z"}

Digit == {"0", "1", "2", "3", "4", "5", "6", "7", "8", "9"}

\* [ \t]
Blank == {" ", "\t"}

\* [A-Za-z0-9._-]
NameChar == Lower \cup Upper \cup Digit \cup {".", "_", "-"}

\* \w
WordChar == Lower \cup Upper \cup Digit \cup {"_"}

\* \s
SpaceChar == {" ", "\t", "\n", "\r", "\f"}

\* X* from offset i, X a class: the offset after the repetition
SkipClass(text, i, Class) ==
  Min({j \in i .. Len(text) : j = Len(text) \/ text[j + 1] \notin Class})

\* [^...]* from offset i: the offset after the repetition
SkipUntil(text, i, Stop) ==
  Min({j \in i .. Len(text) : j = Len(text) \/ text[j + 1] \in Stop})

\* a literal at offset i
HasLiteral(text, i, lit) ==
  /\ i + Len(lit) <= Len(text)
  /\ \A k \in 1 .. Len(lit) : text[i + k] = lit[k]

\* ^ under the m flag
IsLineStart(text, p) == p = 0 \/ At(text, p - 1) = "\n"

(***************************************************************************)
(* findMatchingBrace: the five-state scanner                               *)
(***************************************************************************)
CODE == "CODE"
LINE_COMMENT == "LINE_COMMENT"
BLOCK_COMMENT == "BLOCK_COMMENT"
DQ_STRING == "DQ_STRING"
SQ_STRING == "SQ_STRING"

\* let state = S.CODE, depth = 1; for (let i = openIdx + 1; ...
ScanInit(openIdx) ==
  [openIdx |-> openIdx, state |-> CODE, depth |-> 1, i |-> openIdx + 1,
   done |-> FALSE, ret |-> -1]

\* the quote test of the string states: ch === q && text[i - 1] !== '\\'
QuoteCloses(text, i, q) == At(text, i) = q /\ At(text, i - 1) # "\\"

\* a scanner that counts the braces it reads in every state
ScanStep_CountsEverywhere(text, s) ==
  LET ch == At(text, s.i)
  IN
  IF ~(s.i < Len(text)) THEN [s EXCEPT !.done = TRUE, !.ret = Len(text) - 1]
  ELSE IF ch = "{" THEN [s EXCEPT !.depth = s.depth + 1, !.i = s.i + 1]
  ELSE IF ch = "}" THEN
    IF s.depth - 1 = 0
      THEN [s EXCEPT !.depth = 0, !.done = TRUE, !.ret = s.i]
      ELSE [s EXCEPT !.depth = s.depth - 1, !.i = s.i + 1]
  ELSE IF ch = "\"" THEN
    [s EXCEPT !.state = IF s.state = CODE THEN DQ_STRING ELSE CODE, !.i = s.i + 1]
  ELSE [s EXCEPT !.i = s.i + 1]

\* one evaluation of the loop condition and, when it holds, of the loop body
\* and the increment
ScanStep(text, s) ==
  LET ch == At(text, s.i)
      nxt == At(text, s.i + 1)
  IN
  IF ~(s.i < Len(text)) THEN [s EXCEPT !.done = TRUE, !.ret = Len(text) - 1]
  ELSE CASE s.state = CODE ->
              IF ch = "{" THEN [s EXCEPT !.depth = s.depth + 1, !.i = s.i + 1]
              ELSE IF ch = "}" THEN
                IF s.depth - 1 = 0
                  THEN [s EXCEPT !.depth = 0, !.done = TRUE, !.ret = s.i]
                  ELSE [s EXCEPT !.depth = s.depth - 1, !.i = s.i + 1]
              ELSE IF ch = "/" /\ nxt = "/" THEN [s EXCEPT !.state = LINE_COMMENT, !.i = s.i + 2]
              ELSE IF ch = "/" /\ nxt = "*" THEN [s EXCEPT !.state = BLOCK_COMMENT, !.i = s.i + 2]
              ELSE IF ch = "\"" THEN [s EXCEPT !.state = DQ_STRING, !.i = s.i + 1]
              ELSE IF ch = "'" THEN [s EXCEPT !.state = SQ_STRING, !.i = s.i + 1]
              ELSE [s EXCEPT !.i = s.i + 1]
         [] s.state = LINE_COMMENT ->
              IF ch = "\n" THEN [s EXCEPT !.state = CODE, !.i = s.i + 1]
              ELSE [s EXCEPT !.i = s.i + 1]
         [] s.state = BLOCK_COMMENT ->
              IF ch = "*" /\ nxt = "/" THEN [s EXCEPT !.state = CODE, !.i = s.i + 2]
              ELSE [s EXCEPT !.i = s.i + 1]
         [] s.state = DQ_STRING ->
              IF QuoteCloses(text, s.i, "\"") THEN [s EXCEPT !.state = CODE, !.i = s.i + 1]
              ELSE [s EXCEPT !.i = s.i + 1]
         [] s.state = SQ_STRING ->
              IF QuoteCloses(text, s.i, "'") THEN [s EXCEPT !.state = CODE, !.i = s.i + 1]
              ELSE [s EXCEPT !.i = s.i + 1]

RECURSIVE ScanRun(_, _)
ScanRun(text, s) == IF s.done THEN s.ret ELSE ScanRun(text, ScanStep(text, s))

\* a matcher that answers -1 for a brace nothing closes
findMatchingBrace_OrMinusOne(text, openIdx) ==
  LET r == ScanRun(text, ScanInit(openIdx))
  IN IF r = Len(text) - 1 /\ At(text, r) # "}" THEN -1 ELSE r

findMatchingBrace(text, openIdx) == ScanRun(text, ScanInit(openIdx))

\* no scan is under way
NoScan == [openIdx |-> -1, state |-> CODE, depth |-> 0, i |-> 0, done |-> FALSE, ret |-> -1]

(***************************************************************************)
(* idxToPos and ranges                                                     *)
(***************************************************************************)
idxToPos(text, idx) ==
  LET pre == Slice(text, 0, idx)
      nl == Newlines(pre)
  IN [line |-> Cardinality(nl),
      character |-> IF nl = {} THEN Len(pre) ELSE Len(pre) - (Max(nl) + 1)]

RangeOf(text, from, to) == [start |-> idxToPos(text, from), end |-> idxToPos(text, to)]

(***************************************************************************)
(* The patterns.  A match is [index, end, g1, g2]: where it starts, the    *)
(* offset after it (the lastIndex a g pattern is left with) and its        *)
(* groups.  <Pattern>(text, p) is the match that starts at offset p.       *)
(***************************************************************************)
NoMatch == [index |-> -1, end |-> -1, g1 |-> <<>>, g2 |-> <<>>]

\* ^[ \t]*kw[ \t]+ at p: the offset after it, or -1
StatementHead(text, p, kw) ==
  LET j1 == SkipClass(text, p, Blank)
      j2 == j1 + Len(kw)
  IN IF IsLineStart(text, p) /\ HasLiteral(text, j1, kw) /\ SkipClass(text, j2, Blank) > j2
       THEN SkipClass(text, j2, Blank) ELSE -1

\* ^[ \t]*kw[ \t]+([A-Za-z0-9._-]+)[^\n]*$
NamedLine(text, p, kw) ==
  LET a == StatementHead(text, p, kw)
      b == SkipClass(text, a, NameChar)
  IN IF a >= 0 /\ b > a
       THEN [index |-> p, end |-> SkipUntil(text, b, {"\n"}), g1 |-> Slice(text, a, b), g2 |-> <<>>]
       ELSE NoMatch

\* /^[ \t]*module[ \t]+([A-Za-z0-9._-]+)[^\n]*$/m
MODULE_RE(text, p) == NamedLine(text, p, <<"m", "o", "d", "u", "l", "e">>)

\* /^[ \t]*namespace[ \t]+"([^"]+)"[^\n]*$/m
NS_RE(text, p) ==
  LET a == StatementHead(text, p, <<"n", "a", "m", "e", "s", "p", "a", "c", "e">>)
      c == SkipUntil(text, a + 1, {"\""})
  IN IF a >= 0 /\ At(text, a) = "\"" /\ c > a + 1 /\ c < Len(text)
       THEN [index |-> p, end |-> SkipUntil(text, c + 1, {"\n"}),
             g1 |-> Slice(text, a + 1, c), g2 |-> <<>>]
       ELSE NoMatch

\* /^[ \t]*import[ \t]+([0-9A-Za-z._-]+)[^\n]*$/gm
IMPORT_RE(text, p) == NamedLine(text, p, <<"i", "m", "p", "o", "r", "t">>)

StatusValues == {<<"c", "u", "r", "r", "e", "n", "t">>, <<"d", "e", "p", "r", "e", "c", "a", "t", "e", "d">>, <<"o", "b", "s", "o", "l", "e", "t", "e">>}

\* /^[ \t]*status[ \t]+(current|deprecated|obsolete)[^\n]*$/gm
STATUS_RE(text, p) ==
  LET a == StatementHead(text, p, <<"s", "t", "a", "t", "u", "s">>)
      V == {v \in StatusValues : HasLiteral(text, a, v)}
      v == CHOOSE v \in V : TRUE
  IN IF a >= 0 /\ V # {}
       THEN [index |-> p, end |-> SkipUntil(text, a + Len(v), {"\n"}), g1 |-> v, g2 |-> <<>>]
       ELSE NoMatch

\* ^[ \t]*kw[ \t]+(X+)[ \t]*{ for a class X
BlockStart(text, p, kw, Class) ==
  LET a == StatementHead(text, p, kw)
      b == SkipClass(text, a, Class)
      c == SkipClass(text, b, Blank)
  IN IF a >= 0 /\ b > a /\ At(text, c) = "{"
       THEN [index |-> p, end |-> c + 1, g1 |-> Slice(text, a, b), g2 |-> <<>>]
       ELSE NoMatch

\* /^[ \t]*typedef[ \t]+([A-Za-z0-9._-]+)[ \t]*{/gm
TYPEDEF_START_RE(text, p) == BlockStart(text, p, <<"t", "y", "p", "e", "d", "e", "f">>, NameChar)

\* /^[ \t]*list[ \t]+(\w+)[ \t]*{/gm
LIST_START_RE(text, p) == BlockStart(text, p, <<"l", "i", "s", "t">>, WordChar)

\* /^[ \t]*deviation[ \t]+([^ \t{]+)[ \t]*{/gm
DEVIATION_START_RE(text, p) ==
  LET a == StatementHead(text, p, <<"d", "e", "v", "i", "a", "t", "i", "o", "n">>)
      b == SkipUntil(text, a, {" ", "\t", "{"})
      c == SkipClass(text, b, Blank)
  IN IF a >= 0 /\ b > a /\ At(text, c) = "{"
       THEN [index |-> p, end |-> c + 1, g1 |-> Slice(text, a, b), g2 |-> <<>>]
       ELSE NoMatch

\* ^[ \t]*(k1|k2|...)[ \t]+(\w+)[^\n]*{ : the keyword is the one followed by a
\* blank, the match runs to the last opening brace of the line
KeywordBlock(text, p, Keywords) ==
  LET j1 == SkipClass(text, p, Blank)
      K == {k \in Keywords : HasLiteral(text, j1, k) /\ At(text, j1 + Len(k)) \in Blank}
      kw == CHOOSE k \in K : TRUE
      a == SkipClass(text, j1 + Len(kw), Blank)
      b == SkipClass(text, a, WordChar)
      B == {q \in b .. (SkipUntil(text, b, {"\n"}) - 1) : text[q + 1] = "{"}
  IN IF IsLineStart(text, p) /\ K # {} /\ b > a /\ B # {}
       THEN [index |-> p, end |-> Max(B) + 1, g1 |-> kw, g2 |-> Slice(text, a, b)]
       ELSE NoMatch

DescKeywords ==
  {<<"a", "n", "y", "x", "m", "l">>, <<"a", "u", "g", "m", "e", "n", "t">>, <<"c", "h", "o", "i", "c", "e">>, <<"c", "o", "n", "t", "a", "i", "n", "e", "r">>, <<"e", "x", "t", "e", "n", "s", "i", "o", "n">>, <<"f", "e", "a", "t", "u", "r", "e">>,
   <<"n", "o", "t", "i", "f", "i", "c", "a", "t", "i", "o", "n">>, <<"r", "p", "c">>}

\* /^[ \t]*(anyxml|augment|...|rpc)[ \t]+(\w+)[^\n]*{/gm
DESC_BLOCK_RE(text, p) == KeywordBlock(text, p, DescKeywords)

ConstraintKeywords ==
  {<<"c", "o", "n", "t", "a", "i", "n", "e", "r">>, <<"l", "i", "s", "t">>, <<"l", "e", "a", "f", "-", "l", "i", "s", "t">>, <<"l", "e", "a", "f">>, <<"c", "h", "o", "i", "c", "e">>, <<"c", "a", "s", "e">>, <<"a", "n", "y", "x", "m", "l">>,
   <<"a", "n", "y", "d", "a", "t", "a">>, <<"g", "r", "o", "u", "p", "i", "n", "g">>, <<"u", "s", "e", "s">>, <<"t", "y", "p", "e", "d", "e", "f">>, <<"a", "u", "g", "m", "e", "n", "t">>}

\* /^[ \t]*(container|list|...|augment)[ \t]+(\w+)[^\n]*{/gm
CONSTRAINT_START_RE(text, p) == KeywordBlock(text, p, ConstraintKeywords)

\* /key[ \t]+"([^"]+)"/
KEY_RE(text, p) ==
  LET a == SkipClass(text, p + 3, Blank)
      c == SkipUntil(text, a + 1, {"\""})
  IN IF HasLiteral(text, p, <<"k", "e", "y">>) /\ a > p + 3 /\ At(text, a) = "\"" /\ c > a + 1 /\ c < Len(text)
       THEN [index |-> p, end |-> c + 1, g1 |-> Slice(text, a + 1, c), g2 |-> <<>>]
       ELSE NoMatch

\* /leaf[ \t]+(\w+)/g
LEAF_RE(text, p) ==
  LET a == SkipClass(text, p + 4, Blank)
      b == SkipClass(text, a, WordChar)
  IN IF HasLiteral(text, p, <<"l", "e", "a", "f">>) /\ a > p + 4 /\ b > a
       THEN [index |-> p, end |-> b, g1 |-> Slice(text, a, b), g2 |-> <<>>]
       ELSE NoMatch

\* re.exec(text) with re.lastIndex = from, for at = the match of re at each
\* offset of the text: the leftmost match at or after from
Exec(at, from) ==
  LET C == {p \in DOMAIN at : p >= from /\ at[p] # NoMatch}
  IN IF C = {} THEN NoMatch ELSE at[Min(C)]

\* an exec that leaves lastIndex where the search started when nothing matches
ExecLastIndex_Sticky(m, from) == IF m = NoMatch THEN from ELSE m.end

\* the lastIndex a g pattern is left with by re.exec(text) that started at
\* from and returned m: the end of the match, 0 when nothing matched
ExecLastIndex(m, from) == IF m = NoMatch THEN 0 ELSE m.end

\* the matches of a g pattern, each search starting at the lastIndex the
\* previous exec left: text.matchAll(re), or while ((m = re.exec(text)));
\* a lastIndex beyond the text matches nothing
ExecAll(at, from) ==
  LET all[f \in DOMAIN at] ==
        LET m == Exec(at, f)
        IN IF m = NoMatch THEN <<>> ELSE <<m>> \o all[ExecLastIndex(m, f)]
  IN IF from \in DOMAIN at THEN all[from] ELSE <<>>

\* the lastIndex of the pattern when while ((m = re.exec(text))) ends
LoopLastIndex(at, from) ==
  LET last[f \in DOMAIN at] ==
        LET m == Exec(at, f)
        IN IF m = NoMatch THEN ExecLastIndex(m, f) ELSE last[ExecLastIndex(m, f)]
  IN IF from \in DOMAIN at THEN last[from] ELSE ExecLastIndex(NoMatch, from)

(***************************************************************************)
(* parseYang                                                               *)
(***************************************************************************)
\* the number of lines kept in afterLines
PreviewLines == 10

\* s.split('\n').slice(0, 10).join('\n')
FirstLines(s) ==
  LET nl == Newlines(s)
  IN IF Cardinality(nl) < PreviewLines THEN s
     ELSE Slice(s, 0, CHOOSE k \in nl : Cardinality({j \in nl : j <= k}) = PreviewLines)

\* s.trim()
Trim(s) ==
  LET K == {k \in 1 .. Len(s) : s[k] \notin SpaceChar}
  IN IF K = {} THEN <<>> ELSE SubSeq(s, Min(K), Max(K))

\* s.split(/\s+/) of a trimmed string
RECURSIVE SplitSpaces(_)
SplitSpaces(s) ==
  LET e == SkipUntil(s, 0, SpaceChar)
  IN IF e = Len(s) THEN <<s>>
     ELSE <<Slice(s, 0, e)>> \o SplitSpaces(Slice(s, SkipClass(s, e, SpaceChar), Len(s)))

\* /[\s\n]word[\s\n]/.test(body)
HasWord(body, word) ==
  \E p \in 0 .. (Len(body) - 1) :
    /\ body[p + 1] \in SpaceChar
    /\ HasLiteral(body, p + 1, word)
    /\ At(body, p + 1 + Len(word)) \in SpaceChar

\* open = text.indexOf('{', m.index), close = findMatchingBrace(text, open)
OpenOf(text, m) == IndexOf(text, "{", m.index)

CloseOf(text, m) == findMatchingBrace(text, OpenOf(text, m))

\* body = text.slice(open + 1, close)
BodyOf(text, m) == Slice(text, OpenOf(text, m) + 1, CloseOf(text, m))

\* range: { start: idxToPos(text, m.index), end: idxToPos(text, close + 1) }
BlockRange(text, m) == RangeOf(text, m.index, CloseOf(text, m) + 1)

ParseModuleHeader(text) ==
  LET mh == Exec([p \in 0 .. Len(text) |-> MODULE_RE(text, p)], 0)
      ns == Exec([p \in 0 .. Len(text) |-> NS_RE(text, p)], 0)
  IN IF mh # NoMatch
       THEN Some([moduleName |-> mh.g1,
                  namespace |-> IF ns # NoMatch THEN Some(ns.g1) ELSE None,
                  rawLine |-> Slice(text, mh.index, mh.end),
                  range |-> RangeOf(text, mh.index, mh.end)])
       ELSE None

ParseImports(text, from) ==
  LET ms == ExecAll([p \in 0 .. Len(text) |-> IMPORT_RE(text, p)], from)
  IN [k \in 1 .. Len(ms) |->
        [name |-> ms[k].g1, rawLine |-> Slice(text, ms[k].index, ms[k].end),
         range |-> RangeOf(text, ms[k].index, ms[k].end)]]

ParseTypedefs(text, from) ==
  LET ms == ExecAll([p \in 0 .. Len(text) |-> TYPEDEF_START_RE(text, p)], from)
  IN [k \in 1 .. Len(ms) |->
        [name |-> ms[k].g1, rawLine |-> Slice(text, ms[k].index, ms[k].end),
         afterLines |-> FirstLines(BodyOf(text, ms[k])),
         range |-> BlockRange(text, ms[k])]]

ParseStatuses(text, from) ==
  LET ms == ExecAll([p \in 0 .. Len(text) |-> STATUS_RE(text, p)], from)
  IN [k \in 1 .. Len(ms) |->
        [value |-> ms[k].g1, rawLine |-> Slice(text, ms[k].index, ms[k].end),
         afterLines |-> FirstLines(Slice(text, ms[k].end, Len(text))),
         range |-> RangeOf(text, ms[k].index, ms[k].end)]]

ParseLists(text, from, leafFrom) ==
  LET ms == ExecAll([p \in 0 .. Len(text) |-> LIST_START_RE(text, p)], from)
      keyOf(body) == LET km == Exec([p \in 0 .. Len(body) |-> KEY_RE(body, p)], 0)
                     IN IF km = NoMatch THEN <<>> ELSE SplitSpaces(Trim(km.g1))
      leavesOf(body) == LET ls == ExecAll([p \in 0 .. Len(body) |-> LEAF_RE(body, p)], leafFrom)
                        IN [j \in 1 .. Len(ls) |-> ls[j].g1]
  IN [k \in 1 .. Len(ms) |->
        [line |-> idxToPos(text, ms[k].index).line,
         range |-> BlockRange(text, ms[k]),
         key |-> keyOf(BodyOf(text, ms[k])),
         children |-> leavesOf(BodyOf(text, ms[k])),
         afterLines |-> FirstLines(BodyOf(text, ms[k]))]]

(* A Map with string keys: its entries in insertion order. *)
MapHas(m, key) == \E k \in 1 .. Len(m) : m[k].key = key

MapGet(m, key) == m[CHOOSE k \in 1 .. Len(m) : m[k].key = key].val

MapSet(m, key, val) ==
  IF MapHas(m, key)
    THEN [k \in 1 .. Len(m) |-> IF m[k].key = key THEN [key |-> key, val |-> val] ELSE m[k]]
    ELSE Append(m, [key |-> key, val |-> val])

\* [...m.values()].flat()
RECURSIVE MapValuesFlat(_)
MapValuesFlat(m) == IF m = <<>> THEN <<>> ELSE Head(m).val \o MapValuesFlat(Tail(m))

\* the deviation nodes in document order, duplicate still false
DeviationNodes(text, from) ==
  LET ms == ExecAll([p \in 0 .. Len(text) |-> DEVIATION_START_RE(text, p)], from)
  IN [k \in 1 .. Len(ms) |->
        [target |-> ms[k].g1, range |-> BlockRange(text, ms[k]), duplicate |-> FALSE]]

\* arr = deviationMap.get(target) || []; arr.push(node); deviationMap.set(target, arr)
RECURSIVE GroupByTarget(_, _)
GroupByTarget(nodes, m) ==
  IF nodes = <<>> THEN m
  ELSE LET n == Head(nodes)
           arr == IF MapHas(m, n.target) THEN MapGet(m, n.target) ELSE <<>>
       IN GroupByTarget(Tail(nodes), MapSet(m, n.target, Append(arr, n)))

\* a marking that flags every member of a group of more than one
MarkDuplicates_All(arr) ==
  [k \in 1 .. Len(arr) |-> IF Len(arr) > 1 THEN [arr[k] EXCEPT !.duplicate = TRUE] ELSE arr[k]]

\* if (arr.length > 1) arr.slice(1).forEach(n => n.duplicate = true)
MarkDuplicates(arr) ==
  [k \in 1 .. Len(arr) |-> IF Len(arr) > 1 /\ k > 1 THEN [arr[k] EXCEPT !.duplicate = TRUE] ELSE arr[k]]

ParseDeviations(text, from) ==
  LET m == GroupByTarget(DeviationNodes(text, from), <<>>)
  IN MapValuesFlat([k \in 1 .. Len(m) |-> [key |-> m[k].key, val |-> MarkDuplicates(m[k].val)]])

ParseBlocks(text, from) ==
  LET ms == ExecAll([p \in 0 .. Len(text) |-> DESC_BLOCK_RE(text, p)], from)
  IN [k \in 1 .. Len(ms) |->
        [keyword |-> ms[k].g1, name |-> ms[k].g2,
         rawLine |-> Slice(text, ms[k].index, ms[k].end),
         afterLines |-> FirstLines(BodyOf(text, ms[k])),
         range |-> BlockRange(text, ms[k])]]

ParseConstraintNodes(text, from) ==
  LET ms == ExecAll([p \in 0 .. Len(text) |-> CONSTRAINT_START_RE(text, p)], from)
  IN [k \in 1 .. Len(ms) |->
        [keyword |-> ms[k].g1, name |-> ms[k].g2,
         range |-> BlockRange(text, ms[k]),
         hasMust |-> HasWord(BodyOf(text, ms[k]), <<"m", "u", "s", "t">>),
         hasWhen |-> HasWord(BodyOf(text, ms[k]), <<"w", "h", "e", "n">>),
         hasDesc |-> HasWord(BodyOf(text, ms[k]), <<"d", "e", "s", "c", "r", "i", "p", "t", "i", "o", "n">>)]]

NonEmptyOrUndefined_Always(xs) == Some(xs)

\* xs.length ? xs : undefined
NonEmptyOrUndefined(xs) == IF Len(xs) > 0 THEN Some(xs) ELSE None

\* the lastIndex of the g patterns when the module is loaded
FreshLastIndex ==
  [IMPORT_RE |-> 0, STATUS_RE |-> 0, TYPEDEF_START_RE |-> 0, LIST_START_RE |-> 0,
   DEVIATION_START_RE |-> 0, LEAF_RE |-> 0, DESC_BLOCK_RE |-> 0, CONSTRAINT_START_RE |-> 0]

\* parseYang(text) called when the g patterns hold the lastIndex values li
parseYangFrom(text, li) ==
  [moduleHeader |-> ParseModuleHeader(text),
   imports |-> NonEmptyOrUndefined(ParseImports(text, li.IMPORT_RE)),
   typedefs |-> NonEmptyOrUndefined(ParseTypedefs(text, li.TYPEDEF_START_RE)),
   statuses |-> NonEmptyOrUndefined(ParseStatuses(text, li.STATUS_RE)),
   lists |-> NonEmptyOrUndefined(ParseLists(text, li.LIST_START_RE, li.LEAF_RE)),
   blocks |-> NonEmptyOrUndefined(ParseBlocks(text, li.DESC_BLOCK_RE)),
   deviations |-> NonEmptyOrUndefined(ParseDeviations(text, li.DEVIATION_START_RE)),
   constraintNodes |-> NonEmptyOrUndefined(ParseConstraintNodes(text, li.CONSTRAINT_START_RE))]

\* the lastIndex values parseYang(text) leaves: the patterns of the exec loops
\* are left where their loop ended, matchAll works on a copy of its pattern
LastIndexAfter(text, li) ==
  [li EXCEPT
     !.TYPEDEF_START_RE =
        LoopLastIndex([p \in 0 .. Len(text) |-> TYPEDEF_START_RE(text, p)], li.TYPEDEF_START_RE),
     !.LIST_START_RE =
        LoopLastIndex([p \in 0 .. Len(text) |-> LIST_START_RE(text, p)], li.LIST_START_RE),
     !.DEVIATION_START_RE =
        LoopLastIndex([p \in 0 .. Len(text) |-> DEVIATION_START_RE(text, p)], li.DEVIATION_START_RE),
     !.DESC_BLOCK_RE =
        LoopLastIndex([p \in 0 .. Len(text) |-> DESC_BLOCK_RE(text, p)], li.DESC_BLOCK_RE),
     !.CONSTRAINT_START_RE =
        LoopLastIndex([p \in 0 .. Len(text) |-> CONSTRAINT_START_RE(text, p)], li.CONSTRAINT_START_RE)]

\* parseYang(text) in a process that has parsed nothing yet
parseYang(text) == parseYangFrom(text, FreshLastIndex)
(***************************************************************************)
(* The rule engine.  A rule is [id, description, severity, scope, when].   *)
(* The expression language is the jexl library's: a when expression is     *)
(* modelled by its outcome on each candidate node, "truthy", "falsy" or    *)
(* "throws".  [kind |-> "duplicate"] is the expression deviation.duplicate;*)
(* [kind |-> "opaque", table |-> t] is an expression whose outcome on the  *)
(* k-th candidate node of its rule is t[k] (cyclically);                   *)
(* [kind |-> "syntaxError"] is a text that jexl does not compile.          *)
(***************************************************************************)
\* lst.children[i]: undefined beyond the last child
ChildAt(children, i) == IF i <= Len(children) THEN Some(children[i]) ELSE None

\* a comparison of the names as sets
keyOrderInvalid_AsSet(lst) ==
  \E i \in 1 .. Len(lst.key) : \A j \in 1 .. Len(lst.children) : lst.children[j] # lst.key[i]

\* lst.key.some((k, i) => lst.children[i] !== k)
keyOrderInvalid(lst) ==
  \E i \in 1 .. Len(lst.key) : ChildAt(lst.children, i) # Some(lst.key[i])

\* no list node
NoList == [key |-> <<>>, children |-> <<>>]

GENERIC_SCOPES ==
  {<<"a", "n", "y", "x", "m", "l">>, <<"a", "u", "g", "m", "e", "n", "t">>, <<"c", "h", "o", "i", "c", "e">>, <<"c", "o", "n", "t", "a", "i", "n", "e", "r">>, <<"e", "x", "t", "e", "n", "s", "i", "o", "n">>, <<"f", "e", "a", "t", "u", "r", "e">>,
   <<"n", "o", "t", "i", "f", "i", "c", "a", "t", "i", "o", "n">>, <<"r", "p", "c">>}

\* JexlLib.compile(r.when) throws
CompileThrows(rule) == rule.when.kind = "syntaxError"

\* expr.evalSync({...ctx, <scope>: node}) for the k-th candidate node
EvalSync(rule, node, k) ==
  CASE rule.when.kind = "opaque" -> rule.when.table[((k - 1) % Len(rule.when.table)) + 1]
    [] rule.when.kind = "duplicate" ->
         IF rule.scope = <<"d", "e", "v", "i", "a", "t", "i", "o", "n">> /\ node.duplicate THEN "truthy" ELSE "falsy"

\* DiagnosticSeverity.Error, .Warning, .Information
SeverityOf(rule) ==
  IF rule.severity = "error" THEN 1 ELSE IF rule.severity = "warning" THEN 2 ELSE 3

\* push(rule, range, extra)
Diag(rule, range, extra) ==
  [range |-> range, message |-> rule.description, severity |-> SeverityOf(rule),
   source |-> <<"yang-lint:", rule.id>>, data |-> extra]

\* ast.deviations?.forEach(d => { arr = deviationMap.get(d.target) || [];
\*                               arr.push(d.range); deviationMap.set(d.target, arr) })
RECURSIVE FillDeviationMap(_, _)
FillDeviationMap(devs, m) ==
  IF devs = <<>> THEN m
  ELSE LET d == Head(devs)
           arr == IF MapHas(m, d.target) THEN MapGet(m, d.target) ELSE <<>>
       IN FillDeviationMap(Tail(devs), MapSet(m, d.target, Append(arr, d.range)))

\* xs?.filter(...), xs?.forEach(...) of an optional collection
OrEmpty(opt) == IF opt = None THEN <<>> ELSE opt[1]

\* a clear that leaves the entries in place
MapClear_Keeps(m) == m

\* deviationMap.clear()
MapClear(m) == <<>>

\* deviationMap.clear(), then the pre-fill, on the index m
RebuildDeviationMap(m, ast) == FillDeviationMap(OrEmpty(ast.deviations), MapClear(m))

\* a filter that keeps every block
FilterKeyword_All(blocks, kw) == blocks

RECURSIVE FilterKeyword(_, _)
FilterKeyword(blocks, kw) ==
  IF blocks = <<>> THEN <<>>
  ELSE (IF Head(blocks).keyword = kw THEN <<Head(blocks)>> ELSE <<>>)
         \o FilterKeyword(Tail(blocks), kw)

\* the switch on rule.scope: the nodes the rule is evaluated on, in order
Candidates(rule, ast) ==
  CASE rule.scope = <<"m", "o", "d", "u", "l", "e", "-", "h", "e", "a", "d", "e", "r">> -> ast.moduleHeader
    [] rule.scope = <<"i", "m", "p", "o", "r", "t">> -> OrEmpty(ast.imports)
    [] rule.scope = <<"t", "y", "p", "e", "d", "e", "f">> -> OrEmpty(ast.typedefs)
    [] rule.scope = <<"s", "t", "a", "t", "u", "s">> -> OrEmpty(ast.statuses)
    [] rule.scope = <<"l", "i", "s", "t">> -> OrEmpty(ast.lists)
    [] rule.scope = <<"c", "o", "n", "s", "t", "r", "a", "i", "n", "t", "-", "n", "o", "d", "e">> -> OrEmpty(ast.constraintNodes)
    [] rule.scope = <<"d", "e", "v", "i", "a", "t", "i", "o", "n">> -> OrEmpty(ast.deviations)
    [] OTHER -> IF rule.scope \in GENERIC_SCOPES
                  THEN FilterKeyword(OrEmpty(ast.blocks), rule.scope) ELSE <<>>

\* diagnostics without a payload
ExtraOf_Never(rule, node) == None

\* the payload of a diagnostic: {groupId: n.target} in the deviation case
ExtraOf(rule, node) ==
  IF rule.scope = <<"d", "e", "v", "i", "a", "t", "i", "o", "n">> THEN Some([groupId |-> node.target]) ELSE None

\* the evaluation state: the diagnostics pushed so far, whether an evaluation
\* has thrown, and the (rule, node) pairs evaluated so far
RECURSIVE EvalNodes(_, _, _, _, _)
EvalNodes(rule, i, nodes, k, st) ==
  IF k > Len(nodes) \/ st.threw THEN st
  ELSE LET o == EvalSync(rule, nodes[k], k)
           seen == Append(st.evaluated, <<i, k>>)
       IN EvalNodes(rule, i, nodes, k + 1,
            IF o = "throws" THEN [st EXCEPT !.threw = TRUE, !.evaluated = seen]
            ELSE IF o = "truthy"
              THEN [st EXCEPT !.out = Append(st.out, Diag(rule, nodes[k].range, ExtraOf(rule, nodes[k]))),
                              !.evaluated = seen]
            ELSE [st EXCEPT !.evaluated = seen])

\* for (const {rule, expr} of this.compiled) switch (rule.scope) ...
RECURSIVE EvalRules(_, _, _, _)
EvalRules(rules, i, ast, st) ==
  IF i > Len(rules) \/ st.threw THEN st
  ELSE EvalRules(rules, i + 1, ast, EvalNodes(rules[i], i, Candidates(rules[i], ast), 1, st))

\* an evaluation that returns its diagnostics in the order of their positions
EngineValidate_ByPosition(rules, ast) ==
  LET st == EvalRules(rules, 1, ast, [out |-> <<>>, threw |-> FALSE, evaluated |-> <<>>])
      n == Len(st.out)
      before(a, b) ==
        LET p == st.out[a].range.start
            q == st.out[b].range.start
        IN \/ p.line < q.line
           \/ p.line = q.line /\ p.character < q.character
           \/ p = q /\ a < b
      rank(a) == Cardinality({b \in 1 .. n : before(b, a)})
  IN [st EXCEPT !.out = [k \in 1 .. n |-> st.out[CHOOSE a \in 1 .. n : rank(a) = k - 1]]]

\* RuleEngine.validate after the index is rebuilt: [out, threw, evaluated];
\* when threw, the exception leaves validate and out is lost
EngineValidate(rules, ast) ==
  EvalRules(rules, 1, ast, [out |-> <<>>, threw |-> FALSE, evaluated |-> <<>>])

(***************************************************************************)
(* RuleEngine.reload.  A rule file is [readable, schemaValid, rules]:      *)
(* whether the schema and the rule file are read and parsed, whether the   *)
(* rule document satisfies the schema, and its rules.                      *)
(***************************************************************************)
\* the rules.map(...) of reload throws
MapThrows(file) == \E k \in 1 .. Len(file.rules) : CompileThrows(file.rules[k])

\* a reload that keeps the rules of a document the schema rejects
ReloadOutcome_KeepsRejected(file) ==
  IF ~file.readable THEN [compiled |-> <<>>, message |-> "error"]
  ELSE IF ~file.schemaValid THEN [compiled |-> file.rules, message |-> "error"]
  ELSE IF MapThrows(file) THEN [compiled |-> <<>>, message |-> "error"]
  ELSE [compiled |-> file.rules, message |-> "info"]

\* a reload that keeps the rules compiled before the first one that throws
ReloadOutcome_KeepsPrefix(file) ==
  IF ~file.readable \/ ~file.schemaValid THEN [compiled |-> <<>>, message |-> "error"]
  ELSE IF MapThrows(file)
    THEN LET first == CHOOSE k \in 1 .. Len(file.rules) :
                        /\ CompileThrows(file.rules[k])
                        /\ \A j \in 1 .. (k - 1) : ~CompileThrows(file.rules[j])
         IN [compiled |-> SubSeq(file.rules, 1, first - 1), message |-> "error"]
  ELSE [compiled |-> file.rules, message |-> "info"]

\* [compiled, message]: the rule set reload leaves and the message it shows
ReloadOutcome(file) ==
  IF ~file.readable THEN [compiled |-> <<>>, message |-> "error"]
  ELSE IF ~file.schemaValid THEN [compiled |-> <<>>, message |-> "error"]
  ELSE IF MapThrows(file) THEN [compiled |-> <<>>, message |-> "error"]
  ELSE [compiled |-> file.rules, message |-> "info"]

(***************************************************************************)
(* The quick-fix provider                                                  *)
(***************************************************************************)
\* s.slice(from, to) of the source for any integers: a negative offset counts
\* from the end
JsSlice(s, from, to) ==
  LET norm(x) == IF x < 0 THEN (IF Len(s) + x < 0 THEN 0 ELSE Len(s) + x)
                 ELSE IF x > Len(s) THEN Len(s) ELSE x
  IN IF norm(from) >= norm(to) THEN <<>> ELSE SubSeq(s, norm(from) + 1, norm(to))

\* s.split('\n')
RECURSIVE SplitLines(_)
SplitLines(s) ==
  LET e == SkipUntil(s, 0, {"\n"})
  IN IF e = Len(s) THEN <<s>> ELSE <<Slice(s, 0, e)>> \o SplitLines(Slice(s, e + 1, Len(s)))

\* xs.join(sep)
RECURSIVE Join(_, _)
Join(xs, sep) ==
  IF xs = <<>> THEN <<>>
  ELSE IF Len(xs) = 1 THEN xs[1]
  ELSE xs[1] \o sep \o Join(Tail(xs), sep)

\* the documents the editor sends
DocTexts ==
  { <<"m", "o", "d", "u", "l", "e", " ", "m", " ", "{", "\n", " ", "i", "m", "p", "o", "r", "t", " ", "A", ";", "\n", " ", "i", "m", "p", "o", "r", "t", " ", "B", ";", "\n", " ", "d", "e", "v", "i", "a", "t", "i", "o", "n", " ", "/", "x", " ", "{", "\n", " ", " ", " ", "a", ";", "\n", " ", "}", "\n", " ", "d", "e", "v", "i", "a", "t", "i", "o", "n", " ", "/", "x", " ", "{", " ", "\n", " ", " ", " ", " ", " ", "b", ";", "\n", " ", "}", "\n", "}", "\n", "d", "e", "v", "i", "a", "t", "i", "o", "n", " ", "/", "z", " ", "{", "\n", " ", "d", "e", "v", "i", "a", "t", "i", "o", "n", " ", "/", "z", " ", "{", "\n", " ", "}", "\n", "}">>,
    <<"d", "e", "v", "i", "a", "t", "i", "o", "n", " ", "/", "x", " ", "{", " ", "c", ";", " ", "}", "\n", " ", " ", "d", "e", "v", "i", "a", "t", "i", "o", "n", " ", "/", "x", " ", "{", " ", "d", ";", " ", "}", "\n", "d", "e", "v", "i", "a", "t", "i", "o", "n", " ", "/", "y", " ", "{", "}", "\n", "d", "e", "v", "i", "a", "t", "i", "o", "n", " ", "/", "x", " ", "{", "}", " ", "d", "e", "v", "i", "a", "t", "i", "o", "n", " ", "/", "x", " ", "{", "}">>,
    <<"i", "m", "p", "o", "r", "t", " ", "A", ";", "\n", "c", "o", "n", "t", "a", "i", "n", "e", "r", " ", "c", " ", "{", "\n", "}", "\n", "c", "h", "o", "i", "c", "e", " ", "d", " ", "{", "\n", "}", "\n", "c", "o", "n", "t", "a", "i", "n", "e", "r", " ", "e", " ", "{", "\n", "}">> }

\* text.split('\n') of the documents of the model, tabulated
DocLines == [t \in DocTexts |-> SplitLines(t)]

\* const lines = text.split('\n')
LinesOf(text) == IF text \in DOMAIN DocLines THEN DocLines[text] ELSE SplitLines(text)

\* offsetAt reads lines[i].length of a line the text does not have
OffsetThrows(text, pos) == pos.line > Len(LinesOf(text))

\* for (i = 0; i < pos.line; i++) off += lines[i].length + 1
RECURSIVE LinesLength(_, _)
LinesLength(lines, n) ==
  IF n = 0 THEN 0 ELSE LinesLength(lines, n - 1) + Len(lines[n]) + 1

offsetAt(text, pos) == LinesLength(LinesOf(text), pos.line) + pos.character

TextSliceThrows(text, r) == OffsetThrows(text, r.start) \/ OffsetThrows(text, r.end)

textSlice(text, r) == JsSlice(text, offsetAt(text, r.start), offsetAt(text, r.end))

\* (a, b) => (a.start.line - b.start.line) || (a.start.character - b.start.character)
Before(a, b) ==
  \/ a.start.line < b.start.line
  \/ a.start.line = b.start.line /\ a.start.character < b.start.character

\* [...ranges].sort(...): a stable sort
SortRanges(ranges) ==
  LET rank(k) == Cardinality({j \in 1 .. Len(ranges) :
                    \/ Before(ranges[j], ranges[k])
                    \/ ~Before(ranges[k], ranges[j]) /\ j < k})
  IN [p \in 1 .. Len(ranges) |-> ranges[CHOOSE k \in 1 .. Len(ranges) : rank(k) = p - 1]]

\* l.match(/^[ \t]*/)[0]
LeadingBlanks(l) == Slice(l, 0, SkipClass(l, 0, Blank))

\* body.replace(/^\n+|\s+$/g, '')
StripBody(body) ==
  LET b == Slice(body, SkipClass(body, 0, {"\n"}), Len(body))
      K == {k \in 1 .. Len(b) : b[k] \notin SpaceChar}
  IN IF K = {} THEN <<>> ELSE SubSeq(b, 1, Max(K))

\* the step added to the base indent
IndentStep == <<" ", " ">>

\* body.replace(/^\n+|\s+$/g, '').split('\n') for the body of an occurrence:
\* raw.slice(raw.indexOf('{') + 1, raw.lastIndexOf('}'))
BodyLines(raw) ==
  SplitLines(StripBody(JsSlice(raw, IndexOf(raw, "{", 0) + 1, LastIndexOf(raw, "}"))))

\* the widths of the leading blanks of the lines that are not blank
IndentWidths(lines) ==
  {Len(LeadingBlanks(lines[k])) : k \in {j \in 1 .. Len(lines) : Trim(lines[j]) # <<>>}}

\* lines.map(l => innerIndent + l.slice(minIndent)).join('\n'), minIndent the
\* least of the widths W; Math.min() of no width is Infinity
IndentLines(lines, W, innerIndent) ==
  Join([k \in 1 .. Len(lines) |->
          innerIndent \o (IF W = {} THEN <<>> ELSE Slice(lines[k], Min(W), Len(lines[k])))],
       <<"\n">>)

NormalizedLines(lines, innerIndent) == IndentLines(lines, IndentWidths(lines), innerIndent)

\* one element of bodies: the normalized body of the occurrence at range r
NormalizedBody(text, r, innerIndent) ==
  NormalizedLines(BodyLines(textSlice(text, r)), innerIndent)

FixTitle == "Merge duplicate deviations"

\* an action that only replaces the first occurrence
FixOf_FirstOnly(diag, uri, sorted, merged) ==
  [title |-> FixTitle, kind |-> "quickfix", diagnostics |-> <<diag>>,
   edit |-> [uri |-> uri, edits |-> <<[range |-> sorted[1], newText |-> merged]>>]]

\* edits and the returned CodeAction: merged replaces the first occurrence,
\* the others are deleted
FixOf(diag, uri, sorted, merged) ==
  [title |-> FixTitle, kind |-> "quickfix", diagnostics |-> <<diag>>,
   edit |-> [uri |-> uri,
             edits |-> [k \in 1 .. Len(sorted) |->
                          [range |-> sorted[k], newText |-> IF k = 1 THEN merged ELSE <<>>]]]]

\* a merged text whose bodies follow one another without an empty line
MergedBlock_NoBlankLine(text, target, sorted, baseIndent) ==
  baseIndent \o <<"d", "e", "v", "i", "a", "t", "i", "o", "n", " ">> \o target \o <<" ", "{", "\n">>
    \o Join([k \in 1 .. Len(sorted) |->
               NormalizedBody(text, sorted[k], baseIndent \o IndentStep)], <<"\n">>)
    \o <<"\n">> \o baseIndent \o <<"}">>

\* merged: the header, the bodies joined by an empty line, the closing brace
MergedBlock(text, target, sorted, baseIndent) ==
  baseIndent \o <<"d", "e", "v", "i", "a", "t", "i", "o", "n", " ">> \o target \o <<" ", "{", "\n">>
    \o Join([k \in 1 .. Len(sorted) |->
               NormalizedBody(text, sorted[k], baseIndent \o IndentStep)], <<"\n", "\n">>)
    \o <<"\n">> \o baseIndent \o <<"}">>

\* firstLine: text.slice(lineStartOff, lineEndOff)
FirstLine(text, lineStartOff) ==
  JsSlice(text, lineStartOff,
          IF IndexOf(text, "\n", lineStartOff) = -1 THEN Len(text)
          ELSE IndexOf(text, "\n", lineStartOff))

\* {line: sorted[0].start.line, character: 0}
FirstLinePos(sorted) == [line |-> sorted[1].start.line, character |-> 0]

\* a fix that is built for a group of one occurrence too
FixForRanges_ForSingle(diag, uri, text, target, sorted) ==
  IF Len(sorted) < 1 THEN [threw |-> FALSE, fix |-> None]
  ELSE [threw |-> FALSE, fix |-> Some(FixOf(diag, uri, sorted, <<>>))]

\* buildDeviationFix from the sorted ranges on: [threw, fix], fix = None for null
FixForRanges(diag, uri, text, target, sorted) ==
  IF Len(sorted) < 2 THEN [threw |-> FALSE, fix |-> None]
  ELSE IF \/ OffsetThrows(text, FirstLinePos(sorted))
          \/ \E k \in 1 .. Len(sorted) : TextSliceThrows(text, sorted[k])
    THEN [threw |-> TRUE, fix |-> None]
  ELSE [threw |-> FALSE,
        fix |-> Some(FixOf(diag, uri, sorted,
                  MergedBlock(text, target, sorted,
                    LeadingBlanks(FirstLine(text, offsetAt(text, FirstLinePos(sorted)))))))]

\* deviationMap.get(target), an absent entry as no range
RangesFor(index, target) == IF MapHas(index, target) THEN MapGet(index, target) ELSE <<>>

buildDeviationFix(diag, uri, text, index) ==
  FixForRanges(diag, uri, text, diag.data[1].groupId,
               SortRanges(RangesFor(index, diag.data[1].groupId)))

DuplicateRuleSource == <<"yang-lint:", "deviation-unique-target">>

\* a test that takes every diagnostic with a payload
Fixable_AnySource(diag) == diag.data # None

\* diag.source === 'yang-lint:deviation-unique-target' && diag.data?.groupId
Fixable(diag) == diag.source = DuplicateRuleSource /\ diag.data # None

\* the loop of the onCodeAction handler over params.context.diagnostics
RECURSIVE CollectFixes(_, _, _, _, _)
CollectFixes(diags, uri, text, index, acc) ==
  IF diags = <<>> \/ acc.threw THEN acc
  ELSE LET r == IF Fixable(Head(diags))
                  THEN buildDeviationFix(Head(diags), uri, text, index)
                  ELSE [threw |-> FALSE, fix |-> None]
       IN CollectFixes(Tail(diags), uri, text, index,
            [threw |-> r.threw, fixes |-> acc.fixes \o r.fix])

(***************************************************************************)
(* The server: index.ts                                                    *)
(***************************************************************************)
URIs == {"file:///a.yang", "file:///b.yang"}

\* parseYang on the documents of the model, tabulated
ParsedDocs == [t \in DocTexts |-> parseYang(t)]

\* connection.sendDiagnostics({uri, diagnostics: diags}) unless engine.validate
\* threw: r is what the evaluation gave, index the rebuilt deviationMap
SendDiagnostics(st, uri, text, rules, index, r) ==
  [deviationMap |-> index,
   published |-> IF r.threw THEN st.published
                 ELSE [st.published EXCEPT ![uri] = Some(r.out)],
   lastPass |-> Some([uri |-> uri, text |-> text, rules |-> rules, threw |-> r.threw,
                      out |-> IF r.threw THEN <<>> ELSE r.out,
                      evaluated |-> r.evaluated]),
   threw |-> r.threw]

\* engine.validate(doc.uri, ast): rebuild the index, evaluate the rules
ValidateAst(st, uri, text, rules, tree) ==
  SendDiagnostics(st, uri, text, rules,
                  RebuildDeviationMap(st.deviationMap, tree), EngineValidate(rules, tree))

\* function validate(doc) of index.ts, on the state st = [deviationMap,
\* published, lastPass, threw]: parse, validate, send the diagnostics
ValidateDoc(st, uri, text, rules) == ValidateAst(st, uri, text, rules, ParsedDocs[text])

\* documents.all().forEach(validate): an exception ends the forEach
RECURSIVE ValidateAll(_, _, _)
ValidateAll(st, docs, rules) ==
  IF docs = <<>> \/ st.threw THEN st
  ELSE ValidateAll(ValidateDoc(st, Head(docs).key, Head(docs).val, rules), Tail(docs), rules)

ServerState ==
  [deviationMap |-> deviationMap, published |-> published, lastPass |-> lastPass,
   threw |-> FALSE]

SetServerState(st) ==
  /\ deviationMap' = st.deviationMap
  /\ published' = st.published
  /\ lastPass' = st.lastPass

\* the Map's delete
MapDelete(m, key) == SelectSeq(m, LAMBDA e : e.key # key)

Rule(id, scope, when) ==
  [id |-> id, description |-> id, severity |-> "warning", scope |-> scope, when |-> when]

Opaque(table) == [kind |-> "opaque", table |-> table]

\* the rule files the user may leave on disk
RuleFiles ==
  { [readable |-> FALSE, schemaValid |-> FALSE, rules |-> <<>>],
    [readable |-> TRUE, schemaValid |-> FALSE,
     rules |-> <<Rule("no-when", <<"i", "m", "p", "o", "r", "t">>, Opaque(<<"truthy">>))>>],
    [readable |-> TRUE, schemaValid |-> TRUE,
     rules |-> <<Rule("r1", <<"i", "m", "p", "o", "r", "t">>, Opaque(<<"truthy">>)),
                 Rule("bad", <<"i", "m", "p", "o", "r", "t">>, [kind |-> "syntaxError"])>>],
    [readable |-> TRUE, schemaValid |-> TRUE,
     rules |-> <<Rule("r1", <<"i", "m", "p", "o", "r", "t">>, Opaque(<<"truthy">>)),
                 Rule("r2", <<"i", "m", "p", "o", "r", "t">>, Opaque(<<"truthy">>))>>],
    [readable |-> TRUE, schemaValid |-> TRUE,
     rules |-> <<Rule("r1", <<"i", "m", "p", "o", "r", "t">>, Opaque(<<"truthy", "throws">>)),
                 Rule("deviation-unique-target", <<"d", "e", "v", "i", "a", "t", "i", "o", "n">>, [kind |-> "duplicate"])>>],
    [readable |-> TRUE, schemaValid |-> TRUE,
     rules |-> <<Rule("deviation-unique-target", <<"d", "e", "v", "i", "a", "t", "i", "o", "n">>, [kind |-> "duplicate"]),
                 Rule("r3", <<"c", "o", "n", "t", "a", "i", "n", "e", "r">>, Opaque(<<"truthy">>)),
                 Rule("r4", <<"m", "o", "d", "u", "l", "e", "-", "h", "e", "a", "d", "e", "r">>, Opaque(<<"falsy", "truthy">>))>>],
    [readable |-> TRUE, schemaValid |-> TRUE,
     rules |-> <<Rule("deviation-unique-target", <<"d", "e", "v", "i", "a", "t", "i", "o", "n">>, Opaque(<<"truthy">>)),
                 Rule("deviation-note", <<"d", "e", "v", "i", "a", "t", "i", "o", "n">>, Opaque(<<"truthy">>)),
                 Rule("deviation-unique-target", <<"i", "m", "p", "o", "r", "t">>, Opaque(<<"truthy">>))>>] }

NoActions == [uri |-> "", diagnostics |-> <<>>, threw |-> FALSE, fixes |-> <<>>]

\* the state once onInitialize has constructed the engine (the constructor
\* calls reload) and no document is open
Init ==
  /\ ruleFile \in RuleFiles
  /\ compiled = ReloadOutcome(ruleFile).compiled
  /\ lastMessage = ReloadOutcome(ruleFile).message
  /\ deviationMap = <<>>
  /\ documents = <<>>
  /\ published = [u \in URIs |-> None]
  /\ lastPass = None
  /\ lastActions = NoActions
  /\ btext = <<>> /\ bleft = 0 /\ scan = NoScan
  /\ ptext = <<>> /\ pleft = 0 /\ parsed = None
  /\ lastIndex = FreshLastIndex /\ phistory = "closed"
  /\ klist = NoList /\ kresult = None

\* documents.onDidOpen(e => validate(e.document))
DidOpen(uri, text) ==
  /\ ~MapHas(documents, uri)
  /\ documents' = MapSet(documents, uri, text)
  /\ SetServerState(ValidateDoc(ServerState, uri, text, compiled))
  /\ lastActions' = NoActions
  /\ UNCHANGED <<ruleFile, compiled, lastMessage, braceVars, parseVars, keyVars>>

\* documents.onDidChangeContent(e => validate(e.document))
DidChangeContent(uri, text) ==
  /\ MapHas(documents, uri)
  /\ MapGet(documents, uri) # text
  /\ documents' = MapSet(documents, uri, text)
  /\ SetServerState(ValidateDoc(ServerState, uri, text, compiled))
  /\ lastActions' = NoActions
  /\ UNCHANGED <<ruleFile, compiled, lastMessage, braceVars, parseVars, keyVars>>

\* the document manager drops a closed document; no listener of the server runs
DidClose(uri) ==
  /\ MapHas(documents, uri)
  /\ documents' = MapDelete(documents, uri)
  /\ lastActions' = NoActions
  /\ UNCHANGED <<ruleFile, compiled, lastMessage, deviationMap, published, lastPass,
                 braceVars, parseVars, keyVars>>

\* connection.onDidChangeConfiguration(() => { engine.reload();
\*                                             documents.all().forEach(validate) })
\* file is what create.yaml and rule-Schema.json hold when reload reads them
DidChangeConfiguration(file) ==
  /\ ruleFile' = file
  /\ compiled' = ReloadOutcome(file).compiled
  /\ lastMessage' = ReloadOutcome(file).message
  /\ SetServerState(ValidateAll(ServerState, documents, ReloadOutcome(file).compiled))
  /\ lastActions' = NoActions
  /\ UNCHANGED <<documents, braceVars, parseVars, keyVars>>

\* an index built from the document the request names
IndexFor_OfRequested(uri) ==
  IF MapHas(documents, uri) THEN RebuildDeviationMap(<<>>, ParsedDocs[MapGet(documents, uri)])
  ELSE <<>>

\* the index buildDeviationFix consults: the deviationMap imported from ruleEngine
IndexFor(uri) == deviationMap

\* connection.onCodeAction(params => ...) for the diagnostics the client holds
CodeAction(uri, diags) ==
  /\ lastActions' =
       IF ~MapHas(documents, uri)
         THEN [uri |-> uri, diagnostics |-> diags, threw |-> FALSE, fixes |-> <<>>]
         ELSE LET r == CollectFixes(diags, uri, MapGet(documents, uri), IndexFor(uri),
                                    [threw |-> FALSE, fixes |-> <<>>])
              IN [uri |-> uri, diagnostics |-> diags, threw |-> r.threw,
                  fixes |-> IF r.threw THEN <<>> ELSE r.fixes]
  /\ UNCHANGED <<ruleFile, compiled, lastMessage, deviationMap, documents, published,
                 lastPass, braceVars, parseVars, keyVars>>

Next ==
  \/ \E uri \in URIs, text \in DocTexts : DidOpen(uri, text)
  \/ \E uri \in URIs, text \in DocTexts : DidChangeContent(uri, text)
  \/ \E uri \in URIs : DidClose(uri)
  \/ \E file \in RuleFiles : DidChangeConfiguration(file)
  \/ \E uri \in URIs, from \in URIs : CodeAction(uri, OrEmpty(published[from]))

Spec == Init /\ [][Next]_vars

(***************************************************************************)
(* The lexical structure the matcher is specified against: comments run to *)
(* the end of the line or to the closing star-slash, a string runs to its  *)
(* first quote that is not escaped, and inside a string a backslash        *)
(* escapes the character after it.  RefClose is the offset of the brace    *)
(* that closes the one at openIdx, or None when nothing closes it.         *)
(***************************************************************************)
\* the lexer before offset openIdx + 1
RefInit(openIdx) == [i |-> openIdx + 1, mode |-> CODE, depth |-> 1, closed |-> FALSE]

\* the lexer after the character at s.i: closed when that character is the
\* brace looked for
RefStep(text, s) ==
  LET ch == At(text, s.i)
      nxt == At(text, s.i + 1)
  IN
  CASE s.mode = CODE ->
         IF ch = "{" THEN [s EXCEPT !.i = s.i + 1, !.depth = s.depth + 1]
         ELSE IF ch = "}" THEN
           IF s.depth = 1 THEN [s EXCEPT !.closed = TRUE]
           ELSE [s EXCEPT !.i = s.i + 1, !.depth = s.depth - 1]
         ELSE IF ch = "/" /\ nxt = "/" THEN [s EXCEPT !.i = s.i + 2, !.mode = LINE_COMMENT]
         ELSE IF ch = "/" /\ nxt = "*" THEN [s EXCEPT !.i = s.i + 2, !.mode = BLOCK_COMMENT]
         ELSE IF ch = "\"" THEN [s EXCEPT !.i = s.i + 1, !.mode = DQ_STRING]
         ELSE IF ch = "'" THEN [s EXCEPT !.i = s.i + 1, !.mode = SQ_STRING]
         ELSE [s EXCEPT !.i = s.i + 1]
    [] s.mode = LINE_COMMENT ->
         [s EXCEPT !.i = s.i + 1, !.mode = IF ch = "\n" THEN CODE ELSE LINE_COMMENT]
    [] s.mode = BLOCK_COMMENT ->
         IF ch = "*" /\ nxt = "/" THEN [s EXCEPT !.i = s.i + 2, !.mode = CODE]
         ELSE [s EXCEPT !.i = s.i + 1]
    [] s.mode = DQ_STRING ->
         IF ch = "\\" THEN [s EXCEPT !.i = s.i + 2]
         ELSE [s EXCEPT !.i = s.i + 1, !.mode = IF ch = "\"" THEN CODE ELSE DQ_STRING]
    [] s.mode = SQ_STRING ->
         IF ch = "\\" THEN [s EXCEPT !.i = s.i + 2]
         ELSE [s EXCEPT !.i = s.i + 1, !.mode = IF ch = "'" THEN CODE ELSE SQ_STRING]

RECURSIVE RefScan(_, _)
RefScan(text, s) ==
  IF s.closed THEN Some(s.i)
  ELSE IF s.i >= Len(text) THEN None
  ELSE RefScan(text, RefStep(text, s))

RefClose(text, openIdx) == RefScan(text, RefInit(openIdx))
(***************************************************************************)
(* The brace matcher on its own: a text is a seed extended by up to        *)
(* MaxAppend characters, then scanned from any of its opening braces, one  *)
(* loop iteration per step.                                                *)
(***************************************************************************)
MaxAppend == 3

BraceAlphabet == {"{", "}", "\"", "'", "\\", "/", "*", "\n"}

\* the empty text, the text { a "}" b without its last brace, and an opening
\* brace followed by a string that holds one escaped backslash
BraceSeeds ==
  { <<>>,
    <<"{", " ", "a", " ", "\"", "}", "\"", " ", "b", " ">>,
    <<"{", "\"", "\\", "\\", "\"">> }

\* the server's variables stay as they are before the engine is constructed
ServerIdle ==
  /\ ruleFile = [readable |-> FALSE, schemaValid |-> FALSE, rules |-> <<>>]
  /\ compiled = <<>>
  /\ lastMessage = "none"
  /\ deviationMap = <<>>
  /\ documents = <<>>
  /\ published = [u \in URIs |-> None]
  /\ lastPass = None
  /\ lastActions = NoActions

InitBrace ==
  /\ btext \in BraceSeeds
  /\ bleft = MaxAppend
  /\ scan = NoScan
  /\ ServerIdle
  /\ ptext = <<>> /\ pleft = 0 /\ parsed = None
  /\ lastIndex = FreshLastIndex /\ phistory = "closed"
  /\ klist = NoList /\ kresult = None

BraceAppend(c) ==
  /\ scan = NoScan
  /\ bleft > 0
  /\ btext' = Append(btext, c)
  /\ bleft' = bleft - 1
  /\ UNCHANGED <<scan, serverVars, parseVars, keyVars>>

ScanStart(openIdx) ==
  /\ scan = NoScan
  /\ At(btext, openIdx) = "{"
  /\ scan' = ScanInit(openIdx)
  /\ UNCHANGED <<btext, bleft, serverVars, parseVars, keyVars>>

ScanIter ==
  /\ scan # NoScan
  /\ ~scan.done
  /\ scan' = ScanStep(btext, scan)
  /\ UNCHANGED <<btext, bleft, serverVars, parseVars, keyVars>>

NextBrace ==
  \/ \E c \in BraceAlphabet : BraceAppend(c)
  \/ \E openIdx \in 0 .. (Len(btext) - 1) : ScanStart(openIdx)
  \/ ScanIter

SpecBrace == InitBrace /\ [][NextBrace]_vars

(***************************************************************************)
(* parseYang on its own: one process parses text after text.  A text is a  *)
(* seed extended by up to MaxPieces pieces; parsing it leaves the g        *)
(* patterns with the lastIndex the next call finds.  phistory records what *)
(* was parsed before the current text: "unclosed" when some earlier text   *)
(* had an unterminated block, "closed" otherwise.                          *)
(***************************************************************************)
MaxPieces == 3

Pieces ==
  { <<"\n">>, <<" ", "}">>,
    <<"d", "e", "v", "i", "a", "t", "i", "o", "n", " ", "/", "a", " ", "{">>, <<"d", "e", "v", "i", "a", "t", "i", "o", "n", " ", "/", "b", " ", "{">>,
    <<"m", "o", "d", "u", "l", "e", " ", "f", "o", "o", " ", "{">>, <<" ", "n", "a", "m", "e", "s", "p", "a", "c", "e", " ", "\"", "u", "r", "n", ":", "x", "\"", ";">> }

\* the empty text, two unterminated deviation blocks with one target, and a
\* text with a statement of every other category, its blocks unterminated
ParseSeeds ==
  { <<>>,
    <<"d", "e", "v", "i", "a", "t", "i", "o", "n", " ", "/", "a", " ", "{", "\n", "d", "e", "v", "i", "a", "t", "i", "o", "n", " ", "/", "a", " ", "{", "\n">>,
    <<"i", "m", "p", "o", "r", "t", " ", "a", ";", "\n", "s", "t", "a", "t", "u", "s", " ", "c", "u", "r", "r", "e", "n", "t", ";", "\n", "t", "y", "p", "e", "d", "e", "f", " ", "t", " ", "{", "\n", "l", "i", "s", "t", " ", "l", " ", "{", "\n", "c", "o", "n", "t", "a", "i", "n", "e", "r", " ", "c", " ", "{", "\n">> }

\* some opening brace of the text is never closed
HasUnclosed(text) ==
  \E p \in 0 .. (Len(text) - 1) : At(text, p) = "{" /\ RefClose(text, p) = None

InitParse ==
  /\ ptext \in ParseSeeds
  /\ pleft = MaxPieces
  /\ parsed = None
  /\ lastIndex = FreshLastIndex
  /\ phistory = "closed"
  /\ klist = NoList /\ kresult = None
  /\ ServerIdle
  /\ btext = <<>> /\ bleft = 0 /\ scan = NoScan

AppendPiece(piece) ==
  /\ parsed = None
  /\ pleft > 0
  /\ ptext' = ptext \o piece
  /\ pleft' = pleft - 1
  /\ UNCHANGED <<parsed, lastIndex, phistory, serverVars, braceVars, keyVars>>

\* const ast = parseYang(text)
Parse ==
  /\ parsed = None
  /\ parsed' = Some(parseYangFrom(ptext, lastIndex))
  /\ lastIndex' = LastIndexAfter(ptext, lastIndex)
  /\ UNCHANGED <<ptext, pleft, phistory, serverVars, braceVars, keyVars>>

\* the next text the process is given, after the call on ptext returned
NextText(seed) ==
  /\ parsed # None
  /\ ptext' = seed
  /\ pleft' = MaxPieces
  /\ parsed' = None
  /\ phistory' = IF phistory = "unclosed" \/ HasUnclosed(ptext) THEN "unclosed" ELSE "closed"
  /\ UNCHANGED <<lastIndex, serverVars, braceVars, keyVars>>

NextParse ==
  \/ \E piece \in Pieces : AppendPiece(piece)
  \/ Parse
  \/ \E seed \in ParseSeeds : NextText(seed)

SpecParse == InitParse /\ [][NextParse]_vars
(***************************************************************************)
(* keyOrderInvalid on its own: a list node is given key names and child    *)
(* leaf names one at a time and is then handed to the function.            *)
(***************************************************************************)
MaxKey == 2

MaxChildren == 3

KeyNames == { <<"a">>, <<"b">>, <<"c">> }

InitKey ==
  /\ klist = NoList
  /\ kresult = None
  /\ ServerIdle
  /\ btext = <<>> /\ bleft = 0 /\ scan = NoScan
  /\ ptext = <<>> /\ pleft = 0 /\ parsed = None
  /\ lastIndex = FreshLastIndex /\ phistory = "closed"

AppendKey(name) ==
  /\ kresult = None
  /\ Len(klist.key) < MaxKey
  /\ klist' = [klist EXCEPT !.key = Append(@, name)]
  /\ UNCHANGED <<kresult, serverVars, braceVars, parseVars>>

AppendChild(name) ==
  /\ kresult = None
  /\ Len(klist.children) < MaxChildren
  /\ klist' = [klist EXCEPT !.children = Append(@, name)]
  /\ UNCHANGED <<kresult, serverVars, braceVars, parseVars>>

\* keyOrderInvalid(list) in a when expression
EvaluateKeyOrder ==
  /\ kresult = None
  /\ kresult' = Some(keyOrderInvalid(klist))
  /\ UNCHANGED <<klist, serverVars, braceVars, parseVars>>

NextKey ==
  \/ \E name \in KeyNames : AppendKey(name)
  \/ \E name \in KeyNames : AppendChild(name)
  \/ EvaluateKeyOrder

SpecKey == InitKey /\ [][NextKey]_vars

(***************************************************************************)
(* parseYang on texts with many lines: a text begins with a status         *)
(* statement or a deviation block and is extended line by line, up to      *)
(* MaxFollowing lines, and is then parsed.                                 *)
(***************************************************************************)
MaxFollowing == 10

PreviewHeads ==
  { <<"s", "t", "a", "t", "u", "s", " ", "c", "u", "r", "r", "e", "n", "t", ";">>,
    <<" ", "s", "t", "a", "t", "u", "s", " ", "o", "b", "s", "o", "l", "e", "t", "e", ";", " ", "/", "/", " ", "o", "l", "d", "\n", "s", "t", "a", "t", "u", "s", " ", "d", "e", "p", "r", "e", "c", "a", "t", "e", "d", ";">>,
    <<" ", "d", "e", "v", "i", "a", "t", "i", "o", "n", " ", "/", "a", " ", "{", " ", "d", " ", "\"", "\\", "\\", "\"", ";", " ", "}">> }

FollowingLines == { <<"a", ";">>, <<>> }

InitPreview ==
  /\ ptext \in PreviewHeads
  /\ pleft = MaxFollowing
  /\ parsed = None
  /\ lastIndex = FreshLastIndex
  /\ phistory = "closed"
  /\ klist = NoList /\ kresult = None
  /\ ServerIdle
  /\ btext = <<>> /\ bleft = 0 /\ scan = NoScan

AppendLine(line) ==
  /\ parsed = None
  /\ pleft > 0
  /\ ptext' = ptext \o <<"\n">> \o line
  /\ pleft' = pleft - 1
  /\ UNCHANGED <<parsed, lastIndex, phistory, serverVars, braceVars, keyVars>>

\* const ast = parseYang(text)
ParsePreview ==
  /\ parsed = None
  /\ parsed' = Some(parseYangFrom(ptext, lastIndex))
  /\ lastIndex' = LastIndexAfter(ptext, lastIndex)
  /\ UNCHANGED <<ptext, pleft, phistory, serverVars, braceVars, keyVars>>

NextPreview ==
  \/ \E line \in FollowingLines : AppendLine(line)
  \/ ParsePreview

SpecPreview == InitPreview /\ [][NextPreview]_vars

(***************************************************************************)
(* Properties of findMatchingBrace (SpecBrace)                             *)
(***************************************************************************)
ExampleQuotedBrace == <<"{", " ", "a", " ", "\"", "}", "\"", " ", "b", " ", "}">>

\* C7: for a brace whose body is balanced, matchBrace returns exactly the offset
\* of the brace that closes it; for { a "}" b } it returns the final brace.
C7_ExactMatch ==
  scan.done =>
    /\ RefClose(btext, scan.openIdx) # None => scan.ret = RefClose(btext, scan.openIdx)[1]
    /\ (btext = ExampleQuotedBrace /\ scan.openIdx = 0) => scan.ret = 10

\* C8: for a brace that is never closed, matchBrace returns the last offset of
\* the text.
C8_UnclosedReturnsLast ==
  (scan.done /\ RefClose(btext, scan.openIdx) = None) => scan.ret = Len(btext) - 1


\* every iteration of the scan loop ends the scan or moves i forward, and i
\* stays within one past the end of the text: the scan ends after at most
\* Len(text) iterations
ScanAdvances ==
  [][(scan # NoScan /\ scan' # scan) =>
       /\ scan'.done \/ scan'.i > scan.i
       /\ scan'.i <= Len(btext) + 1
    ]_vars

\* an iteration of the scan loop that reads a character
ReadsCharacter == scan # NoScan /\ ~scan.done /\ scan.i < Len(btext) /\ scan' # scan

\* C21: only characters read in the CODE state change depth or start a
\* comment or a string: an iteration that starts in a line comment, a block
\* comment or a string leaves depth as it is (also when it reads a brace),
\* does not end the scan, and ends in the state it started in or in CODE (a
\* quote or a comment opener read there starts no new mode).
C21_OnlyCodeChangesDepth ==
  [][(ReadsCharacter /\ scan.state # CODE) =>
       /\ scan'.depth = scan.depth
       /\ ~scan'.done
       /\ scan'.state \in {scan.state, CODE}
    ]_vars

\* the brace inside the string of { a "}" b has just been read in DQ_STRING
C21_Witness ==
  /\ scan # NoScan
  /\ scan.state = DQ_STRING
  /\ scan.depth = 1
  /\ At(btext, scan.i - 1) = "}"
  /\ At(btext, scan.i - 2) = "\""

\* the number of backslashes that stand immediately before offset i
RECURSIVE BackslashesBefore(_, _)
BackslashesBefore(text, i) ==
  IF At(text, i - 1) = "\\" THEN 1 + BackslashesBefore(text, i - 1) ELSE 0

\* the character at offset i is escaped: an odd number of backslashes stands
\* before it, the last of them not itself escaped
Escaped(text, i) == BackslashesBefore(text, i) % 2 = 1

QuoteOf(state) == IF state = DQ_STRING THEN "\"" ELSE "'"

\* C22: inside a double- or single-quoted string a quote ends the string
\* exactly when it is not backslash-escaped: an escaped quote keeps the
\* automaton in the string state, the closing quote returns it to CODE, also
\* when the last character of the string is an escaped backslash.
C22_UnescapedQuoteCloses ==
  [][(ReadsCharacter /\ scan.state \in {DQ_STRING, SQ_STRING}) =>
       (scan'.state = CODE <=>
          (At(btext, scan.i) = QuoteOf(scan.state) /\ ~Escaped(btext, scan.i)))
    ]_vars
(***************************************************************************)
(* Properties of parseYang (SpecParse)                                     *)
(***************************************************************************)
ParsedAst == parsed[1]

ParsedDeviations == OrEmpty(ParsedAst.deviations)

\* position order: line first, character second
PosLess(a, b) == a.line < b.line \/ (a.line = b.line /\ a.character < b.character)

ThreeDeviations == <<"d", "e", "v", "i", "a", "t", "i", "o", "n", " ", "/", "a", " ", "{", "\n", "d", "e", "v", "i", "a", "t", "i", "o", "n", " ", "/", "a", " ", "{", "\n", "d", "e", "v", "i", "a", "t", "i", "o", "n", " ", "/", "a", " ", "{">>

\* the nodes of a collection in document order
InDocumentOrder(nodes) ==
  LET rank(k) == Cardinality({j \in 1 .. Len(nodes) : PosLess(nodes[j].range.start, nodes[k].range.start)})
  IN [p \in 1 .. Len(nodes) |-> nodes[CHOOSE k \in 1 .. Len(nodes) : rank(k) = p - 1]]

\* C9: the duplicate flag of a deviation node is true iff another deviation
\* node with the same target starts earlier in the document; three deviation
\* blocks with one target are flagged false, true, true in document order.
C9_DuplicateFlag ==
  parsed # None =>
    /\ \A k \in 1 .. Len(ParsedDeviations) :
         ParsedDeviations[k].duplicate <=>
           \E j \in 1 .. Len(ParsedDeviations) :
             /\ ParsedDeviations[j].target = ParsedDeviations[k].target
             /\ PosLess(ParsedDeviations[j].range.start, ParsedDeviations[k].range.start)
    /\ ptext = ThreeDeviations =>
         [k \in 1 .. 3 |-> InDocumentOrder(ParsedDeviations)[k].duplicate] = <<FALSE, TRUE, TRUE>>

C9_Witness ==
  /\ parsed # None
  /\ ptext = ThreeDeviations
  /\ Len(ParsedDeviations) = 3
  /\ [k \in 1 .. 3 |-> InDocumentOrder(ParsedDeviations)[k].duplicate] = <<FALSE, TRUE, TRUE>>

ExampleModule == <<"m", "o", "d", "u", "l", "e", " ", "f", "o", "o", " ", "{", " ", "n", "a", "m", "e", "s", "p", "a", "c", "e", " ", "\"", "u", "r", "n", ":", "x", "\"", ";", " ", "}">>

\* the text holds a module statement whose closed body holds, on whatever
\* line, the statement namespace "urn:x";
ModuleBodyHasNamespace(text) ==
  LET mh == Exec([p \in 0 .. Len(text) |-> MODULE_RE(text, p)], 0)
      open == IndexOf(text, "{", mh.index)
      close == RefClose(text, open)
  IN /\ mh # NoMatch
     /\ open >= 0
     /\ close # None
     /\ \E p \in (open + 1) .. (close[1] - 1) : HasLiteral(text, p, <<"n", "a", "m", "e", "s", "p", "a", "c", "e", " ", "\"", "u", "r", "n", ":", "x", "\"", ";">>)

\* C10: for module foo { namespace "urn:x"; } the header has moduleName foo and
\* namespace urn:x; whenever the module's body holds a namespace statement with
\* a double-quoted argument, the header's namespace is that argument.
C10_HeaderNamespace ==
  parsed # None =>
    /\ ptext = ExampleModule =>
         /\ ParsedAst.moduleHeader # None
         /\ ParsedAst.moduleHeader[1].moduleName = <<"f", "o", "o">>
         /\ ParsedAst.moduleHeader[1].namespace = Some(<<"u", "r", "n", ":", "x">>)
    /\ ModuleBodyHasNamespace(ptext) =>
         /\ ParsedAst.moduleHeader # None
         /\ ParsedAst.moduleHeader[1].namespace = Some(<<"u", "r", "n", ":", "x">>)


\* C11: parseYang keeps no state between calls: whatever texts the process
\* parsed before, texts with unterminated blocks included, the Ast returned
\* for a text is the Ast a fresh process returns for it, and every g pattern
\* is back at lastIndex 0 between calls, so each call scans from offset 0.
C11_NoStateBetweenCalls ==
  /\ lastIndex = FreshLastIndex
  /\ parsed # None => ParsedAst = parseYang(ptext)

C11_Witness ==
  /\ phistory = "unclosed"
  /\ parsed # None
  /\ HasUnclosed(ptext)
  /\ Len(ParsedDeviations) = 3
  /\ ParsedAst = parseYang(ptext)

\* the categories of an Ast that hold sequences of nodes
Collections ==
  {"imports", "typedefs", "statuses", "lists", "blocks", "deviations", "constraintNodes"}

\* the word module occurs somewhere in the text
HasModuleWord(text) == \E p \in 0 .. Len(text) : HasLiteral(text, p, <<"m", "o", "d", "u", "l", "e">>)

\* C12: in every Ast parseYang returns, each collection category is either
\* undefined or a non-empty sequence, never an empty one, and moduleHeader is
\* undefined when the text holds no module statement.
C12_NoEmptyCategory ==
  parsed # None =>
    /\ \A c \in Collections : ParsedAst[c] = None \/ Len(ParsedAst[c][1]) > 0
    /\ ~HasModuleWord(ptext) => ParsedAst.moduleHeader = None

C12_Witness ==
  /\ parsed # None
  /\ ~HasModuleWord(ptext)
  /\ ParsedAst.moduleHeader = None
  /\ ParsedAst.deviations = None
  /\ ParsedAst.imports # None
  /\ Len(ParsedAst.lists[1]) = 1

\* the ranges of all nodes of an Ast
RangesOfAst(ast) ==
  {ast.moduleHeader[k].range : k \in 1 .. Len(ast.moduleHeader)}
    \cup UNION {{OrEmpty(ast[c])[k].range : k \in 1 .. Len(OrEmpty(ast[c]))} : c \in Collections}

\* the position is that of some offset of the text: line counts the newlines
\* before the offset, character the characters since the start of its line
InDocument(text, pos) ==
  \E idx \in 0 .. Len(text) :
    /\ pos.character >= 0 /\ pos.character <= idx
    /\ IsLineStart(text, idx - pos.character)
    /\ \A k \in (idx - pos.character) .. (idx - 1) : At(text, k) # "\n"
    /\ pos.line = Cardinality({k \in Newlines(text) : k < idx})

\* C13: every range of every node of parseYang(text) has its end at or after
\* its start in (line, character) order, nodes of unterminated blocks
\* included, and both positions are zero-based positions within the text.
C13_RangesOrdered ==
  parsed # None =>
    \A r \in RangesOfAst(ParsedAst) :
      /\ ~PosLess(r.end, r.start)
      /\ InDocument(ptext, r.start)
      /\ InDocument(ptext, r.end)

C13_Witness ==
  /\ parsed # None
  /\ HasUnclosed(ptext)
  /\ ParsedAst.moduleHeader # None
  /\ \A c \in Collections \ {"deviations"} : ParsedAst[c] # None
  /\ \E r \in RangesOfAst(ParsedAst) : r.start.line > 0 /\ r.end.line > r.start.line
  /\ \E r \in RangesOfAst(ParsedAst) : r.start.line = r.end.line /\ r.end.character > r.start.character
(***************************************************************************)
(* Properties of the rule engine and the server (Spec)                     *)
(***************************************************************************)
Pass == lastPass[1]

PassAst == ParsedDocs[Pass.text]

\* the (rule, node) pairs of a pass in rule-definition order, then
\* node-collection order
PairLess(p, q) == p[1] < q[1] \/ (p[1] = q[1] /\ p[2] < q[2])

PairsOf(rules, tree) ==
  UNION {{<<i, k>> : k \in 1 .. Len(Candidates(rules[i], tree))} : i \in 1 .. Len(rules)}

OutcomeOf(rules, tree, p) == EvalSync(rules[p[1]], Candidates(rules[p[1]], tree)[p[2]], p[2])

\* a set of pairs as the sequence in rule order, then node order
PairsInOrder(P) ==
  LET rank(p) == Cardinality({q \in P : PairLess(q, p)})
  IN [n \in 1 .. Cardinality(P) |-> CHOOSE p \in P : rank(p) = n - 1]

DiagOf(rules, tree, p) ==
  LET node == Candidates(rules[p[1]], tree)[p[2]]
  IN Diag(rules[p[1]], node.range, ExtraOf(rules[p[1]], node))

\* the diagnostics of the truthy pairs, every pair that throws left out
TruthyDiags(rules, tree) ==
  LET ps == PairsInOrder({p \in PairsOf(rules, tree) : OutcomeOf(rules, tree, p) = "truthy"})
  IN [n \in 1 .. Len(ps) |-> DiagOf(rules, tree, ps[n])]

\* C1: a predicate that throws on one node does not abort the pass: validate
\* returns normally, the pair contributes no diagnostic, every other pair is
\* evaluated and contributes its diagnostic as if the throwing pair were absent.
C1_ThrowSkipsOnlyThatPair ==
  lastPass # None =>
    /\ ~Pass.threw
    /\ Pass.out = TruthyDiags(Pass.rules, PassAst)
    /\ {Pass.evaluated[n] : n \in 1 .. Len(Pass.evaluated)} = PairsOf(Pass.rules, PassAst)

\* the load reload makes of a rule file fails
LoadFails(file) ==
  \/ ~file.readable
  \/ ~file.schemaValid
  \/ \E k \in 1 .. Len(file.rules) : file.rules[k].when.kind = "syntaxError"

\* C2: after a failed load an error was reported and no rule is compiled; a
\* validate() on any Ast then returns an empty list without throwing.
C2_FailedLoadIsEmpty ==
  LoadFails(ruleFile) =>
    /\ lastMessage = "error"
    /\ compiled = <<>>
    /\ \A t \in DocTexts :
         /\ ~EngineValidate(compiled, ParsedDocs[t]).threw
         /\ EngineValidate(compiled, ParsedDocs[t]).out = <<>>
    /\ \A u \in URIs : MapHas(documents, u) => published[u] = Some(<<>>)

C2_Witness ==
  /\ LoadFails(ruleFile)
  /\ ruleFile.readable /\ ~ruleFile.schemaValid /\ ruleFile.rules # <<>>
  /\ lastPass # None
  /\ Pass.rules = <<>> /\ Pass.out = <<>> /\ ~Pass.threw
  /\ \E u \in URIs : MapHas(documents, u) /\ published[u] = Some(<<>>)

\* C3: the active rule set is empty or the complete rule set of the most
\* recent load attempt: empty after a failed attempt, whatever was loaded
\* before, and the whole file after a successful one.
C3_WholesaleRuleSet ==
  /\ compiled = <<>> \/ compiled = ruleFile.rules
  /\ LoadFails(ruleFile) => compiled = <<>>
  /\ ~LoadFails(ruleFile) => compiled = ruleFile.rules

\* a failed attempt on a file with a rule that compiles, after an earlier load
\* whose rules produced diagnostics that are still published
C3_Witness ==
  /\ LoadFails(ruleFile)
  /\ \E k \in 1 .. Len(ruleFile.rules) : ~CompileThrows(ruleFile.rules[k])
  /\ compiled = <<>>
  /\ \E u \in URIs : published[u] # None /\ published[u][1] # <<>>

TwoImportRules ==
  <<Rule("r1", <<"i", "m", "p", "o", "r", "t">>, Opaque(<<"truthy">>)), Rule("r2", <<"i", "m", "p", "o", "r", "t">>, Opaque(<<"truthy">>))>>

\* C4: the diagnostics come in rule-definition order first and node-collection
\* order second: two import rules that both match imports A and B give
\* R1 at A, R1 at B, R2 at A, R2 at B.
C4_RuleThenNodeOrder ==
  (lastPass # None /\ ~Pass.threw) =>
    /\ Pass.out = TruthyDiags(Pass.rules, PassAst)
    /\ \A n \in 1 .. (Len(Pass.evaluated) - 1) :
         PairLess(Pass.evaluated[n], Pass.evaluated[n + 1])
    /\ (Pass.rules = TwoImportRules /\ PassAst.imports # None /\ Len(PassAst.imports[1]) = 2) =>
         /\ [n \in 1 .. Len(Pass.out) |-> Pass.out[n].source[2]] = <<"r1", "r1", "r2", "r2">>
         /\ [n \in 1 .. Len(Pass.out) |-> Pass.out[n].range] =
              <<PassAst.imports[1][1].range, PassAst.imports[1][2].range,
                PassAst.imports[1][1].range, PassAst.imports[1][2].range>>

C4_Witness ==
  /\ lastPass # None
  /\ ~Pass.threw
  /\ Pass.rules = TwoImportRules
  /\ Len(Pass.out) = 4
  /\ PosLess(Pass.out[3].range.start, Pass.out[2].range.start)

\* the ranges, in collection order, of the deviation nodes with target t
RangesOfTarget(tree, t) ==
  LET devs == OrEmpty(tree.deviations)
      sel == SelectSeq(devs, LAMBDA d : d.target = t)
  IN [k \in 1 .. Len(sel) |-> sel[k].range]

TargetsOf(tree) == {OrEmpty(tree.deviations)[k].target : k \in 1 .. Len(OrEmpty(tree.deviations))}

\* an index holds exactly the deviation occurrences of a tree
IndexIsOf(index, tree) ==
  /\ {index[k].key : k \in 1 .. Len(index)} = TargetsOf(tree)
  /\ \A k \in 1 .. Len(index) : index[k].val = RangesOfTarget(tree, index[k].key)
  /\ \A j, k \in 1 .. Len(index) : index[j].key = index[k].key => j = k

\* C5: every validate rebuilds the index wholesale: after a pass it maps each
\* target of ast.deviations to the ranges of the nodes with that target and
\* holds nothing of an earlier pass, also with no rule or no deviation.
C5_IndexRebuiltWholesale ==
  /\ lastPass # None => IndexIsOf(deviationMap, PassAst)
  /\ lastPass = None => deviationMap = <<>>

\* the last pass was over a document without deviations, with no rule loaded,
\* after a pass that published a diagnostic of a deviation
C5_Witness ==
  /\ lastPass # None
  /\ PassAst.deviations = None
  /\ Pass.rules = <<>>
  /\ deviationMap = <<>>
  /\ \E u \in URIs : published[u] # None /\
       \E n \in 1 .. Len(published[u][1]) : published[u][1][n].data # None

\* C6: the index a quick-fix request consults holds the occurrences of the
\* document validated most recently, whichever document the request names: the
\* edits of a fix lie at the ranges of that document.
C6_IndexOfLastValidated ==
  lastActions # NoActions =>
    /\ lastPass # None => IndexIsOf(IndexFor(lastActions.uri), PassAst)
    /\ \A n \in 1 .. Len(lastActions.fixes) :
         LET fix == lastActions.fixes[n]
             t == fix.diagnostics[1].data[1].groupId
         IN /\ lastPass # None
            /\ {fix.edit.edits[k].range : k \in 1 .. Len(fix.edit.edits)} =
                 {RangesOfTarget(PassAst, t)[k] : k \in 1 .. Len(RangesOfTarget(PassAst, t))}
            /\ fix.edit.uri = lastActions.uri

\* a request for one document answered from the ranges of another, validated
\* after it, whose occurrences lie elsewhere
C6_Witness ==
  /\ lastActions # NoActions
  /\ lastPass # None
  /\ lastActions.uri # Pass.uri
  /\ MapHas(documents, lastActions.uri)
  /\ MapGet(documents, lastActions.uri) # Pass.text
  /\ lastActions.fixes # <<>>
  /\ LET t == lastActions.fixes[1].diagnostics[1].data[1].groupId
         own == ParsedDocs[MapGet(documents, lastActions.uri)]
     IN /\ RangesOfTarget(own, t) # RangesOfTarget(PassAst, t)
        /\ lastActions.fixes[1].edit.edits[1].range = RangesOfTarget(PassAst, t)[1]


\* the occurrences the index holds for the groupId of a diagnostic
GroupOf(diag) == RangesFor(deviationMap, diag.data[1].groupId)

\* the handler calls buildDeviationFix for the diagnostic and the index has no
\* group of two or more occurrences for it
Unavailable(diag) == Fixable(diag) /\ Len(GroupOf(diag)) < 2

\* C14: a code-action request for a diagnostic whose groupId is not a key of
\* the index, or whose group has fewer than two occurrences, gives no action
\* for it and no error: a request of such diagnostics only returns the empty
\* list, in any request that returns no action is scoped to such a diagnostic
\* and the list is shorter than the diagnostics by at least their number, and
\* the request leaves the index as it was.
C14_UnavailableIsNoAction ==
  [][lastActions'.uri # "" =>
       /\ deviationMap' = deviationMap
       /\ (\A k \in 1 .. Len(lastActions'.diagnostics) :
             ~Fixable(lastActions'.diagnostics[k]) \/ Unavailable(lastActions'.diagnostics[k]))
            => (~lastActions'.threw /\ lastActions'.fixes = <<>>)
       /\ \A k \in 1 .. Len(lastActions'.fixes) :
            ~Unavailable(lastActions'.fixes[k].diagnostics[1])
       /\ ~lastActions'.threw =>
            Len(lastActions'.fixes) + Len(SelectSeq(lastActions'.diagnostics, Unavailable))
              <= Len(lastActions'.diagnostics)
    ]_vars

C14_Witness ==
  /\ lastActions.uri # ""
  /\ ~lastActions.threw
  /\ lastActions.fixes # <<>>
  /\ Len(lastActions.fixes) < Len(SelectSeq(lastActions.diagnostics, Fixable))
  /\ \E k \in 1 .. Len(lastActions.diagnostics) :
       /\ Fixable(lastActions.diagnostics[k])
       /\ Len(GroupOf(lastActions.diagnostics[k])) = 1

\* a request whose only fixable diagnostics name a target the index lacks
C14_MissingKeyReached ==
  /\ lastActions.uri # ""
  /\ MapHas(documents, lastActions.uri)
  /\ \E k \in 1 .. Len(lastActions.diagnostics) : Fixable(lastActions.diagnostics[k])
  /\ \A k \in 1 .. Len(lastActions.diagnostics) :
       Fixable(lastActions.diagnostics[k]) =>
         ~MapHas(deviationMap, lastActions.diagnostics[k].data[1].groupId)
  /\ lastActions.fixes = <<>>

\* the occurrence of a group that comes first in the document: smallest start
\* line, then smallest start character
FirstOccurrence(group) ==
  CHOOSE r \in {group[k] : k \in 1 .. Len(group)} :
    \A k \in 1 .. Len(group) : ~PosLess(group[k].start, r.start)

\* C15: when the group of a diagnostic's target has n >= 2 occurrences, the
\* action produced for it has exactly n edits: the first replaces the full
\* range of the occurrence that comes first in the document with the merged
\* text, and the other n - 1 have empty text, one over the full range of each
\* other occurrence.
C15_OneReplaceRestDelete ==
  \A f \in 1 .. Len(lastActions.fixes) :
    LET group == GroupOf(lastActions.fixes[f].diagnostics[1])
        edits == lastActions.fixes[f].edit.edits
    IN /\ Len(group) >= 2
       /\ Len(edits) = Len(group)
       /\ edits[1].range = FirstOccurrence(group)
       /\ edits[1].newText # <<>>
       /\ \A k \in 2 .. Len(edits) : edits[k].newText = <<>>
       /\ \A g \in 1 .. Len(group) :
            Cardinality({k \in 1 .. Len(edits) : edits[k].range = group[g]}) = 1

C15_Witness ==
  /\ lastActions.fixes # <<>>
  /\ Len(GroupOf(lastActions.fixes[1].diagnostics[1])) = 3
  /\ Len(lastActions.fixes[1].edit.edits) = 3
  /\ lastActions.fixes[1].edit.edits[1].range.start.line = 0
  /\ lastActions.fixes[1].edit.edits[3].range.start.line = 3

\* how many entries of a sequence equal x
CountOf(seq, x) == Cardinality({k \in 1 .. Len(seq) : seq[k] = x})

\* C16: the code-action handler returns at most one action for each
\* diagnostic of the request, and only for diagnostics whose source is the
\* duplicate-deviation-target rule and that carry a groupId; an action lists
\* exactly the diagnostic it was made for and keys its edits by the uri of the
\* request; a request for a document that is not open returns the empty list.
C16_OneActionPerFixable ==
  lastActions.uri # "" =>
    /\ \A f \in 1 .. Len(lastActions.fixes) :
         LET fix == lastActions.fixes[f]
         IN /\ Len(fix.diagnostics) = 1
            /\ fix.diagnostics[1].source = DuplicateRuleSource
            /\ fix.diagnostics[1].data # None
            /\ CountOf(lastActions.fixes, fix) <= CountOf(lastActions.diagnostics, fix.diagnostics[1])
            /\ \A g \in 1 .. Len(lastActions.fixes) :
                 lastActions.fixes[g].diagnostics = fix.diagnostics => lastActions.fixes[g] = fix
            /\ fix.edit.uri = lastActions.uri
    /\ ~MapHas(documents, lastActions.uri) => lastActions.fixes = <<>> /\ ~lastActions.threw

C16_Witness ==
  /\ lastActions.uri # ""
  /\ lastActions.fixes # <<>>
  /\ Len(lastActions.fixes) = Len(SelectSeq(lastActions.diagnostics, Fixable))
  /\ \E k \in 1 .. Len(lastActions.diagnostics) :
       /\ lastActions.diagnostics[k].source = DuplicateRuleSource
       /\ lastActions.diagnostics[k].data = None
  /\ \E k \in 1 .. Len(lastActions.diagnostics) :
       /\ lastActions.diagnostics[k].source # DuplicateRuleSource
       /\ lastActions.diagnostics[k].data # None

\* a request, with diagnostics of the rule, for a document that is not open
C16_NotOpenReached ==
  /\ lastActions.uri # ""
  /\ ~MapHas(documents, lastActions.uri)
  /\ \E k \in 1 .. Len(lastActions.diagnostics) : Fixable(lastActions.diagnostics[k])
  /\ lastActions.fixes = <<>>

\* the truthy (rule, node) pairs of the last pass, in the order of their
\* diagnostics
PassPairs ==
  PairsInOrder({p \in PairsOf(Pass.rules, PassAst) : OutcomeOf(Pass.rules, PassAst, p) = "truthy"})

\* C17: a diagnostic validate emits for a rule of scope deviation carries the
\* payload {groupId: t}, t the target of the deviation node at whose range the
\* diagnostic lies, and t is a key of the index the same pass built; the
\* diagnostics of rules of every other scope carry no payload.
C17_GroupIdPayload ==
  (lastPass # None /\ ~Pass.threw) =>
    /\ Len(Pass.out) = Len(PassPairs)
    /\ \A n \in 1 .. Len(Pass.out) :
         LET rule == Pass.rules[PassPairs[n][1]]
             node == Candidates(rule, PassAst)[PassPairs[n][2]]
         IN /\ Pass.out[n].range = node.range
            /\ IF rule.scope = <<"d", "e", "v", "i", "a", "t", "i", "o", "n">>
                 THEN /\ Pass.out[n].data = Some([groupId |-> node.target])
                      /\ MapHas(deviationMap, node.target)
                      /\ \E k \in 1 .. Len(MapGet(deviationMap, node.target)) :
                           MapGet(deviationMap, node.target)[k] = node.range
                 ELSE Pass.out[n].data = None

C17_Witness ==
  /\ lastPass # None /\ ~Pass.threw
  /\ \E n \in 1 .. Len(Pass.out) :
       /\ Pass.rules[PassPairs[n][1]].scope = <<"d", "e", "v", "i", "a", "t", "i", "o", "n">>
       /\ Pass.out[n].data = Some([groupId |-> <<"/", "x">>])
  /\ \E n \in 1 .. Len(Pass.out) :
       /\ Pass.rules[PassPairs[n][1]].scope = <<"i", "m", "p", "o", "r", "t">>
       /\ Pass.out[n].source = DuplicateRuleSource
       /\ Pass.out[n].data = None

\* a step of the configuration-change listener that changes the state
ConfigurationChanged ==
  documents' = documents /\ lastActions' = NoActions /\ vars' # vars

\* no when expression of the rule set throws on a document of the model
NeverThrows(rules) == \A t \in DocTexts : ~EngineValidate(rules, ParsedDocs[t]).threw

\* C19: on a configuration change the rule set is reloaded first and then
\* every open document is parsed and validated again: the diagnostics
\* published for each open document after the change are those of the
\* reloaded rule set (none when the reload failed), never those of the rule
\* set before it.
C19_RevalidatedWithReloaded ==
  [][ConfigurationChanged =>
       /\ compiled' = ReloadOutcome(ruleFile').compiled
       /\ \A k \in 1 .. Len(documents) :
            published'[documents[k].key] =
              Some(TruthyDiags(compiled', ParsedDocs[documents[k].val]))
    ]_vars

\* the same for the rule sets none of whose expressions throws
C19_RevalidatedUnlessThrow ==
  [][(ConfigurationChanged /\ NeverThrows(compiled')) =>
       /\ compiled' = ReloadOutcome(ruleFile').compiled
       /\ \A k \in 1 .. Len(documents) :
            published'[documents[k].key] =
              Some(TruthyDiags(compiled', ParsedDocs[documents[k].val]))
    ]_vars

\* a step of the document-opened or the document-changed listener
OpenedOrChanged == documents' # documents /\ Len(documents') >= Len(documents)

\* C20: every validation pass started by a document-opened or a
\* document-changed event runs to completion and ends by publishing one
\* sequence of diagnostics for that document.
C20_PassEndsByPublishing ==
  [][OpenedOrChanged =>
       /\ lastPass' # None
       /\ MapHas(documents', lastPass'[1].uri)
       /\ MapGet(documents', lastPass'[1].uri) = lastPass'[1].text
       /\ ~lastPass'[1].threw
       /\ published'[lastPass'[1].uri] = Some(lastPass'[1].out)
    ]_vars

\* the same for the rule sets none of whose expressions throws
C20_PublishesUnlessThrow ==
  [][(OpenedOrChanged /\ NeverThrows(compiled)) =>
       /\ lastPass' # None
       /\ MapGet(documents', lastPass'[1].uri) = lastPass'[1].text
       /\ ~lastPass'[1].threw
       /\ published'[lastPass'[1].uri] = Some(lastPass'[1].out)
    ]_vars

\* the blocks of the last parsed document, and those of one keyword
PassBlocks == OrEmpty(PassAst.blocks)

BlocksOf(kw) == SelectSeq(PassBlocks, LAMBDA b : b.keyword = kw)

\* how many evaluations the last pass made for its i-th rule
EvaluationsOf(i) ==
  Cardinality({n \in 1 .. Len(Pass.evaluated) : Pass.evaluated[n][1] = i})

\* the ranges of the diagnostics of the i-th rule, in the order emitted
RangesEmittedBy(i) ==
  LET own == SelectSeq(PassPairs, LAMBDA p : p[1] = i)
      at(n) == CHOOSE m \in 1 .. Len(PassPairs) :
                 /\ PassPairs[m][1] = i
                 /\ Cardinality({j \in 1 .. m : PassPairs[j][1] = i}) = n
  IN [n \in 1 .. Len(own) |-> Pass.out[at(n)].range]

\* seq is made of entries of of, in the order they have in of
IsSubsequence(seq, of) ==
  \E f \in [1 .. Len(seq) -> 1 .. Len(of)] :
    /\ \A n \in 1 .. Len(seq) : seq[n] = of[f[n]]
    /\ \A n \in 1 .. (Len(seq) - 1) : f[n] < f[n + 1]

\* C23: a rule whose scope is one of the eight generic block keywords is
\* evaluated on exactly the blocks of that keyword, in ast.blocks order, and
\* emits nothing at a block of another keyword; a module-header rule is
\* evaluated at most once in a pass and not at all without a module header.
C23_GenericScopeByKeyword ==
  (lastPass # None /\ ~Pass.threw) =>
    \A i \in 1 .. Len(Pass.rules) :
      /\ Pass.rules[i].scope \in GENERIC_SCOPES =>
           /\ EvaluationsOf(i) = Len(BlocksOf(Pass.rules[i].scope))
           /\ IsSubsequence(RangesEmittedBy(i),
                [k \in 1 .. Len(BlocksOf(Pass.rules[i].scope)) |->
                   BlocksOf(Pass.rules[i].scope)[k].range])
           /\ \A n \in 1 .. Len(RangesEmittedBy(i)), k \in 1 .. Len(PassBlocks) :
                PassBlocks[k].range = RangesEmittedBy(i)[n] =>
                  PassBlocks[k].keyword = Pass.rules[i].scope
      /\ Pass.rules[i].scope = <<"m", "o", "d", "u", "l", "e", "-", "h", "e", "a", "d", "e", "r">> =>
           EvaluationsOf(i) = Len(PassAst.moduleHeader)

C23_Witness ==
  /\ lastPass # None /\ ~Pass.threw
  /\ Len(PassBlocks) = 3
  /\ PassAst.moduleHeader = None
  /\ \E i \in 1 .. Len(Pass.rules) :
       /\ Pass.rules[i].scope = <<"c", "o", "n", "t", "a", "i", "n", "e", "r">>
       /\ EvaluationsOf(i) = 2
       /\ Len(RangesEmittedBy(i)) = 2
       /\ RangesEmittedBy(i)[2].start.line = 5
  /\ \E i \in 1 .. Len(Pass.rules) :
       Pass.rules[i].scope = <<"m", "o", "d", "u", "l", "e", "-", "h", "e", "a", "d", "e", "r">> /\ EvaluationsOf(i) = 0

\* a module-header rule evaluated once, on a document with a module header
C23_HeaderEvaluatedOnce ==
  /\ lastPass # None /\ ~Pass.threw
  /\ PassAst.moduleHeader # None
  /\ \E i \in 1 .. Len(Pass.rules) :
       Pass.rules[i].scope = <<"m", "o", "d", "u", "l", "e", "-", "h", "e", "a", "d", "e", "r">> /\ EvaluationsOf(i) = 1

\* the text of the document the last request named
RequestText == MapGet(documents, lastActions.uri)

\* the lines of the bodies, an empty line between one body and the next
RECURSIVE WithBlankLines(_)
WithBlankLines(bodies) ==
  IF bodies = <<>> THEN <<>>
  ELSE IF Len(bodies) = 1 THEN SplitLines(bodies[1])
  ELSE SplitLines(bodies[1]) \o << <<>> >> \o WithBlankLines(Tail(bodies))

\* the leading blanks of the line of the text on which the range starts
BaseIndentAt(text, r) == LeadingBlanks(LinesOf(text)[r.start.line + 1])

\* C24: the merged text of a quick-fix is the line <base indent>deviation
\* <target> {, then the normalized bodies of all occurrences in document
\* order with exactly one blank line between consecutive bodies, then the line
\* <base indent>}, every occurrence's body once; the base indent is the
\* leading whitespace of the source line on which the first occurrence starts.
C24_MergedTextLayout ==
  \A f \in 1 .. Len(lastActions.fixes) :
    LET edits == lastActions.fixes[f].edit.edits
        target == lastActions.fixes[f].diagnostics[1].data[1].groupId
        base == BaseIndentAt(RequestText, edits[1].range)
    IN SplitLines(edits[1].newText) =
         << base \o <<"d", "e", "v", "i", "a", "t", "i", "o", "n", " ">> \o target \o <<" ", "{">> >>
           \o WithBlankLines([k \in 1 .. Len(edits) |->
                                NormalizedBody(RequestText, edits[k].range, base \o IndentStep)])
           \o << base \o <<"}">> >>

C24_Witness ==
  /\ lastActions.fixes # <<>>
  /\ Len(lastActions.fixes[1].edit.edits) = 2
  /\ BaseIndentAt(RequestText, lastActions.fixes[1].edit.edits[1].range) = <<" ">>
  /\ Len(SplitLines(lastActions.fixes[1].edit.edits[1].newText)) = 6

\* a line with nothing but white space
BlankLine(l) == Trim(l) = <<>>

\* the lines without the blank lines at their head
RECURSIVE DropLeadingBlankLines(_)
DropLeadingBlankLines(lines) ==
  IF lines = <<>> THEN <<>>
  ELSE IF BlankLine(lines[1]) THEN DropLeadingBlankLines(Tail(lines))
  ELSE lines

\* the text without the white space at its end
DropTrailingSpace(s) ==
  LET K == {k \in 1 .. Len(s) : s[k] \notin SpaceChar}
  IN IF K = {} THEN <<>> ELSE SubSeq(s, 1, Max(K))

\* the text strictly between the first { and the last } of an occurrence
Between(raw) == JsSlice(raw, IndexOf(raw, "{", 0) + 1, LastIndexOf(raw, "}"))

\* the body the description gives: leading blank lines and trailing white
\* space dropped, the least indent of the non-blank lines removed from every
\* line, every line prefixed with the child indent
DescribedBody(raw, childIndent) ==
  LET lines == DropLeadingBlankLines(SplitLines(DropTrailingSpace(Between(raw))))
      W == {Len(LeadingBlanks(lines[k])) : k \in {j \in 1 .. Len(lines) : ~BlankLine(lines[j])}}
  IN [k \in 1 .. Len(lines) |-> childIndent \o Slice(lines[k], Min(W), Len(lines[k]))]

HasNonBlankLine(raw) ==
  \E k \in 1 .. Len(SplitLines(Between(raw))) : ~BlankLine(SplitLines(Between(raw))[k])

\* the occurrences the produced actions merge: [raw, body, child], body the
\* lines of the occurrence's normalized body
OccurrencesOf(fix) ==
  LET child == BaseIndentAt(RequestText, fix.edit.edits[1].range) \o IndentStep
  IN {[raw |-> textSlice(RequestText, fix.edit.edits[k].range),
       body |-> SplitLines(NormalizedBody(RequestText, fix.edit.edits[k].range, child)),
       child |-> child] : k \in 1 .. Len(fix.edit.edits)}

OccurrencesMerged == UNION {OccurrencesOf(lastActions.fixes[f]) : f \in 1 .. Len(lastActions.fixes)}

\* C25: for each occurrence the quick-fix takes the text strictly between the
\* first { and the last } of the occurrence, drops leading blank lines and
\* trailing white space, removes from every line the least leading-white-space
\* width of the non-blank lines and prefixes every line with the child indent
\* (base indent plus two spaces).
C25_BodyAsDescribed ==
  \A o \in OccurrencesMerged :
    HasNonBlankLine(o.raw) => o.body = DescribedBody(o.raw, o.child)

\* what holds of every normalized body: its least-indented non-blank line
\* starts at the child indent, no line is indented less, and a body with no
\* non-blank line is the child indent alone
C25_LeastIndentAtChild ==
  \A o \in OccurrencesMerged :
    /\ \A k \in 1 .. Len(o.body) : Slice(o.body[k], 0, Len(o.child)) = o.child
    /\ HasNonBlankLine(o.raw) =>
         \E k \in 1 .. Len(o.body) :
           /\ ~BlankLine(o.body[k])
           /\ Len(LeadingBlanks(o.body[k])) = Len(o.child)
    /\ ~HasNonBlankLine(o.raw) => o.body = <<o.child>>

\* a body with no non-blank line has been merged
C25_EmptyBodyReached == \E o \in OccurrencesMerged : ~HasNonBlankLine(o.raw)

\* C28: for any interleaving of validations of the open documents and
\* code-action requests, computing the code actions completes without an
\* exception and returns a list, also when the ranges of the index lie beyond
\* the end of the text of the requested document.
C28_CodeActionsComplete == ~lastActions.threw

\* what holds: a request whose index ranges all lie within the lines of the
\* requested text completes
C28_CompletesWithinText ==
  lastActions.threw =>
    \E k \in 1 .. Len(deviationMap) : \E j \in 1 .. Len(deviationMap[k].val) :
      deviationMap[k].val[j].end.line > Len(LinesOf(RequestText))

\* two ranges share a character
Overlap(a, b) == PosLess(a.start, b.end) /\ PosLess(b.start, a.end)

\* one range lies within the other
Nested(a, b) ==
  \/ ~PosLess(a.start, b.start) /\ ~PosLess(b.end, a.end)
  \/ ~PosLess(b.start, a.start) /\ ~PosLess(a.end, b.end)

\* C29: the text edits of one produced code action have pairwise
\* non-overlapping ranges, for every document text the index was built from,
\* also one in which a deviation block for a target is written inside
\* another block for the same target.
C29_EditsDoNotOverlap ==
  \A f \in 1 .. Len(lastActions.fixes) :
    LET edits == lastActions.fixes[f].edit.edits
    IN \A j, k \in 1 .. Len(edits) :
         j < k => ~Overlap(edits[j].range, edits[k].range)

\* what holds: the ranges of two edits overlap only when one block lies
\* within the other
C29_OverlapOnlyWhenNested ==
  \A f \in 1 .. Len(lastActions.fixes) :
    LET edits == lastActions.fixes[f].edit.edits
    IN \A j, k \in 1 .. Len(edits) :
         j < k /\ Overlap(edits[j].range, edits[k].range) =>
           Nested(edits[j].range, edits[k].range)

(***************************************************************************)
(* Properties of keyOrderInvalid (SpecKey)                                 *)
(***************************************************************************)
\* C18: keyOrderInvalid(list) is true iff at some index below the length of
\* the key the child differs from the key name, a missing child counting as
\* different and the children past the key's length not at all: key a b with
\* children a c b gives true, key a b with children a b c gives false.
C18_PositionalComparison ==
  kresult # None =>
    /\ kresult[1] <=>
         \E i \in 1 .. Len(klist.key) :
           i > Len(klist.children) \/ klist.children[i] # klist.key[i]
    /\ (klist.key = <<<<"a">>, <<"b">>>> /\ klist.children = <<<<"a">>, <<"c">>, <<"b">>>>) => kresult[1]
    /\ (klist.key = <<<<"a">>, <<"b">>>> /\ klist.children = <<<<"a">>, <<"b">>, <<"c">>>>) => ~kresult[1]

C18_Witness ==
  /\ kresult = Some(TRUE)
  /\ klist.key = <<<<"a">>, <<"b">>>>
  /\ klist.children = <<<<"a">>, <<"c">>, <<"b">>>>

\* the second example
C18_SecondExampleReached ==
  /\ kresult = Some(FALSE)
  /\ klist.key = <<<<"a">>, <<"b">>>>
  /\ klist.children = <<<<"a">>, <<"b">>, <<"c">>>>

\* a key longer than the children
C18_MissingChildReached ==
  /\ kresult = Some(TRUE)
  /\ klist.key = <<<<"a">>, <<"b">>>>
  /\ klist.children = <<<<"a">>>>
(***************************************************************************)
(* Claims about the previews of the parser                                 *)
(***************************************************************************)
\* the first n elements of a sequence, all of them when it has fewer
FirstN(xs, n) == SubSeq(xs, 1, IF Len(xs) < n THEN Len(xs) ELSE n)

\* the lines of the text after the line on which the node ends
LinesAfter(text, node) ==
  SubSeq(SplitLines(text), node.range.end.line + 2, Len(SplitLines(text)))

\* C26: for every status statement found by the parser, the following-lines
\* preview of its StatusNode holds the 10 document lines that follow the
\* status line (all remaining lines when fewer than 10 follow), in document
\* order.  The preview may begin with the line break that ends the status
\* line.
C26_PreviewHoldsFollowingLines ==
  parsed # None /\ ParsedAst.statuses # None =>
    \A k \in 1 .. Len(ParsedAst.statuses[1]) :
      LET node == ParsedAst.statuses[1][k]
          following == Join(FirstN(LinesAfter(ptext, node), PreviewLines), <<"\n">>)
      IN \/ node.afterLines = following
         \/ node.afterLines = <<"\n">> \o following

\* what the preview is: the (empty) rest of the status line and the
\* PreviewLines - 1 lines that follow it
C26_PreviewIsRestAndNine ==
  parsed # None /\ ParsedAst.statuses # None =>
    \A k \in 1 .. Len(ParsedAst.statuses[1]) :
      LET node == ParsedAst.statuses[1][k]
      IN SplitLines(node.afterLines) =
           FirstN(<< <<>> >> \o LinesAfter(ptext, node), PreviewLines)

\* the offset at which the line of a position starts
LineStart(text, pos) == offsetAt(text, [line |-> pos.line, character |-> 0])

\* the offset of the brace that closes the block of a deviation node, if it
\* has one
ClosingBrace(text, node) ==
  RefClose(text, IndexOf(text, "{", offsetAt(text, node.range.start)))

\* offsetAt(text, idxToPos(text, i)) = i for every offset of the text
RoundTrips(text) ==
  \A i \in 0 .. Len(text) :
    /\ ~OffsetThrows(text, idxToPos(text, i))
    /\ offsetAt(text, idxToPos(text, i)) = i

\* slicing the text by the range of each deviation node that has a closing
\* brace gives the text from the start of its line through that brace
SlicesAreBlocks(text, ast) ==
  ast.deviations # None =>
    \A k \in 1 .. Len(ast.deviations[1]) :
      LET node == ast.deviations[1][k]
      IN ClosingBrace(text, node) # None =>
           /\ ~TextSliceThrows(text, node.range)
           /\ textSlice(text, node.range) =
                Slice(text, LineStart(text, node.range.start), ClosingBrace(text, node)[1] + 1)

\* C27: position mapping round-trips: offsetAt(text, idxToPos(text, i)) = i
\* for every offset i of every text, and so slicing the text by the range of
\* a deviation node the parser produced returns exactly the text from the
\* start of the deviation's line through its closing brace.
C27_RoundTripAndSlice ==
  parsed # None => RoundTrips(ptext) /\ SlicesAreBlocks(ptext, ParsedAst)

\* the round trip alone
C27_RoundTrip == RoundTrips(ptext)

\* the slices of the texts in which no string ends with a backslash
C27_SliceWithoutBackslash ==
  parsed # None /\ (\A i \in 1 .. Len(ptext) : ptext[i] # "\\") =>
    SlicesAreBlocks(ptext, ParsedAst)

\* a round trip over several lines and a sliced closed deviation block
C27_SliceReached ==
  /\ parsed # None
  /\ ParsedAst.deviations # None
  /\ \E k \in 1 .. Len(ParsedAst.deviations[1]) :
       /\ ClosingBrace(ptext, ParsedAst.deviations[1][k]) # None
       /\ ParsedAst.deviations[1][k].range.start.line > 0

(***************************************************************************)
(* Claims about the effect of a quick-fix on the document                  *)
(***************************************************************************)
\* the text after the first n edits of a workspace edit were applied, the
\* last of them first: the ranges are those of the text before any edit
RECURSIVE ApplyEdits(_, _, _)
ApplyEdits(text, edits, n) ==
  IF n = 0 THEN text
  ELSE ApplyEdits(Slice(text, 0, offsetAt(text, edits[n].range.start))
                    \o edits[n].newText
                    \o Slice(text, offsetAt(text, edits[n].range.end), Len(text)),
                  edits, n - 1)

\* the duplicate flags of the deviation nodes of a target, in the order of
\* the tree
FlagsOf(tree, t) ==
  LET sel == SelectSeq(OrEmpty(tree.deviations), LAMBDA d : d.target = t)
  IN [k \in 1 .. Len(sel) |-> sel[k].duplicate]

\* the target a produced action merges
TargetOf(fix) == fix.diagnostics[1].data[1].groupId

\* the action was built from the index of the requested text itself, and the
\* blocks it merges are terminated and not nested in one another
FreshAndSeparate(fix) ==
  LET edits == fix.edit.edits
      tree == ParsedDocs[RequestText]
  IN /\ [k \in 1 .. Len(edits) |-> edits[k].range] = RangesOfTarget(tree, TargetOf(fix))
     /\ \A k \in 1 .. Len(edits) :
          RefClose(RequestText,
                   IndexOf(RequestText, "{", offsetAt(RequestText, edits[k].range.start))) # None
     /\ \A j, k \in 1 .. Len(edits) : j < k => ~Overlap(edits[j].range, edits[k].range)

\* the tree of the text that applying the action gives
TreeAfter(fix) == parseYang(ApplyEdits(RequestText, fix.edit.edits, Len(fix.edit.edits)))

\* C30: the quick-fix resolves what it reports: for a document whose index is
\* fresh and whose blocks for target t are terminated and not nested in one
\* another, applying all edits of the fix for t and parsing the result gives
\* exactly one deviation node with target t, not flagged duplicate, and the
\* deviation nodes of every other target keep their count and their flags.
C30_FixResolves ==
  \A f \in 1 .. Len(lastActions.fixes) :
    FreshAndSeparate(lastActions.fixes[f]) =>
      /\ FlagsOf(TreeAfter(lastActions.fixes[f]), TargetOf(lastActions.fixes[f])) = <<FALSE>>
      /\ \A u \in (TargetsOf(TreeAfter(lastActions.fixes[f])) \cup TargetsOf(ParsedDocs[RequestText]))
                    \ {TargetOf(lastActions.fixes[f])} :
           FlagsOf(TreeAfter(lastActions.fixes[f]), u) = FlagsOf(ParsedDocs[RequestText], u)

\* what holds: the merged block is one node of the target, and the other
\* targets keep their nodes, when no line of the document holds text after
\* the closing brace of a merged block
NothingAfterBlocks(fix) ==
  \A k \in 1 .. Len(fix.edit.edits) :
    At(RequestText, offsetAt(RequestText, fix.edit.edits[k].range.end)) \in {"\n", Undefined}

C30_ResolvesWhenBlocksEndLines ==
  \A f \in 1 .. Len(lastActions.fixes) :
    FreshAndSeparate(lastActions.fixes[f]) /\ NothingAfterBlocks(lastActions.fixes[f]) =>
      /\ FlagsOf(TreeAfter(lastActions.fixes[f]), TargetOf(lastActions.fixes[f])) = <<FALSE>>
      /\ \A u \in (TargetsOf(TreeAfter(lastActions.fixes[f])) \cup TargetsOf(ParsedDocs[RequestText]))
                    \ {TargetOf(lastActions.fixes[f])} :
           FlagsOf(TreeAfter(lastActions.fixes[f]), u) = FlagsOf(ParsedDocs[RequestText], u)

\* a fresh action over separate blocks that end their lines has been applied
C30_ResolvedReached ==
  \E f \in 1 .. Len(lastActions.fixes) :
    /\ FreshAndSeparate(lastActions.fixes[f])
    /\ NothingAfterBlocks(lastActions.fixes[f])
    /\ FlagsOf(TreeAfter(lastActions.fixes[f]), TargetOf(lastActions.fixes[f])) = <<FALSE>>


=============================================================================
